---- MODULE Spec2Model ----
(***************************************************************************)
(* A model of michel-1977/softOptimizationVRP.                             *)
(*                                                                         *)
(*   Part I   the Clarke-Wright solver  (src/solve_vrp/__init__.py)        *)
(*   Part II  the /solve_vrp handler    (src/function_app.py, _solve)      *)
(*   Part III the /enrich_municipality handler and the semantic merge      *)
(*            (src/function_app.py)                                        *)
(*   Part IV  the provider clients      (src/solve_vrp/here_platform.py,   *)
(*            src/solve_vrp/here_emulator.py)                              *)
(*   Part V   the municipality resolver (src/solve_vrp/semantic_layer.py)  *)
(*   Part VI  the segments and the semantic locations of a route           *)
(*            (src/solve_vrp/semantic_layer.py)                            *)
(*   Part VII the loop of build_semantic_layer over routes and segments    *)
(*            (src/solve_vrp/semantic_layer.py)                            *)
(*   Part VIII the row of a reverse-geocode payload                        *)
(*            (src/solve_vrp/semantic_layer.py)                            *)
(*   Part IX  the cap on the samples of a segment                          *)
(*            (src/solve_vrp/semantic_layer.py)                            *)
(*   Part X   the pipeline of /solve_vrp: validation, prefetch, solver,    *)
(*            enrichment  (src/function_app.py)                            *)
(*   Part XI  the road geometry of the segments and the fallback to the    *)
(*            straight line  (src/solve_vrp/semantic_layer.py)             *)
(*   Part XII the observations of the caller and the answers of the        *)
(*            provider for one segment  (src/solve_vrp/semantic_layer.py)  *)
(*                                                                         *)
(* Distances are whole kilometres (haversine rounded); python dicts are    *)
(* records whose optional keys may be absent (DOMAIN tells); object        *)
(* identity of Node / Edge / Route is identity of the customer id, of the  *)
(* ordered pair of ids, and of the id of the customer the route was        *)
(* created for.                                                            *)
(***************************************************************************)
EXTENDS Integers, Sequences, FiniteSets, TLC

VARIABLES
    pc,              \* position of the request in _solve / the solver
    request,         \* the request payload: depot, customers, vehicles, ...
    roads,           \* environment: the ordered legs the OSRM table has no route for
    points,          \* solver local `points` (ids, depot first)
    distance_matrix_km, \* solver local: [<<a, b>> |-> km], Inf for a null leg
    distance_source, \* solver local
    warnings,        \* solver local
    reachable_customers, \* solver local
    savings_list,    \* Clarke-Wright: edges still to try, best savings first
    routes,          \* Clarke-Wright: route ids in list order
    route_of,        \* Clarke-Wright: route id -> [edges, cost, demand]
    in_route,        \* Clarke-Wright: customer id -> route id (Node.in_route)
    is_interior,     \* Clarke-Wright: customer id -> BOOLEAN (Node.is_interior)
    merges,          \* history: the merges done so far, <<i, j>> in order
    table_calls,     \* history: how each OSRM table request ended, in order
    result,          \* what solve_vrp_nearest_neighbor returned (None before)
    semantic_raised, \* history: build_semantic_layer raised inside _solve
    response,        \* the HTTP response of _solve (None before)
    enrich_request,  \* the body of the first /enrich_municipality request
    municipality_run,\* environment: what the municipality lookups answer
    now_utc,         \* the clock generated_at_utc is read from
    enrich_log,      \* history: one entry per /enrich_municipality call
    client_kind,     \* provider client: "live" (HerePlatformClient) or "emulator"
    http_cache,      \* live client: _http_cache, url -> payload
    weather_cache,   \* client: _weather_cache, cache_key -> result
    traffic_cache,   \* client: _traffic_cache, cache_key -> result
    routing_cache,   \* client: _routing_cache, cache_key -> result
    stats,           \* client: _stats
    wall_clock,      \* datetime.now(), in minutes
    provider_log,    \* history: one entry per provider call
    lookup,          \* the municipality lookup: book, last_request_ts, counters
    monotonic,       \* time.monotonic(), in units of min_interval_ms
    geocode_errors,  \* the `errors` list the resolver appends to
    geocode_log,     \* history: one entry per _resolve_municipality_point
    builder_pc,      \* _build_route_segments: "off", "called" or "returned"
    builder_input,   \* its arguments: stops, avg_speed_kmh, departure_time_utc
    builder_segments,\* the segments it returned
    scorer_pc,       \* _semantic_locations_for_route: "off", "called", "returned"
    scorer_input,    \* its arguments: route, candidates, radius, categories, top_k
    scorer_locations,\* the locations it returned
    layer_pc,        \* build_semantic_layer: "off", "routes", "segments",
                     \* "returned" or "raised"
    layer_input,     \* its arguments and options
    layer_route,     \* the route in progress: segments, contexts, vectors
    routes_output,   \* local routes_output
    here_errors,     \* local here_errors
    layer_calls,     \* history: how the provider calls of each segment ended
    layer_result,    \* what build_semantic_layer returned
    extract_pc,      \* _reverse_geocode_stop_address: "off", "called" or "returned"
    extract_payload, \* the payload the reverse geocoder answered with
    extract_row,     \* the row it returned
    limit_pc,        \* _limit_samples: "off", "called" or "returned"
    limit_input,     \* its arguments: samples, max_samples
    limit_picked,    \* the samples it returned
    handler_pc,      \* _solve: "off", "received", "prefetched", "solved", "responded"
    handler_body,    \* the body of the /solve_vrp request
    here_api_key,    \* environment: whether HERE_API_KEY is set
    handler_payload, \* local semantic_payload of _solve
    solver_result,   \* what the solver returned to _solve
    handler_log,     \* history: provider calls and the call of the solver, in order
    handler_response,\* the HTTP response
    geometry_pc,     \* the geometry step of build_semantic_layer: "off", "segments", "returned"
    geometry_input,  \* the segments, the geometry switch, what phase 1 left
    segment_shape_cache,\* local segment_shape_cache
    segment_shape_stats,\* local segment_shape_stats
    municipality_errors,\* local municipality_errors
    segment_shapes,  \* history: route_shape_points of every segment traced
    geometry_result, \* municipality_api, errors and notice of the layer
    merge_pc,        \* the contexts of one segment: "off", "matched", "merged"
    merge_input,     \* the observations of the caller matched with the segment
    merge_answers,   \* history: what the three provider calls answered
    segment_weather, \* weather_context of the segment
    segment_traffic  \* traffic_context of the segment

solverVars == <<points, distance_matrix_km, distance_source, warnings,
                reachable_customers, savings_list, routes, route_of, in_route,
                is_interior, merges, table_calls, result>>
solveVars == <<pc, request, roads, solverVars, semantic_raised, response>>
enrichVars == <<enrich_request, municipality_run, now_utc, enrich_log>>
providerVars == <<client_kind, http_cache, weather_cache, traffic_cache,
                  routing_cache, stats, wall_clock, provider_log>>
resolverVars == <<lookup, monotonic, geocode_errors, geocode_log>>
builderVars == <<builder_pc, builder_input, builder_segments>>
scorerVars == <<scorer_pc, scorer_input, scorer_locations>>
layerVars == <<layer_pc, layer_input, layer_route, routes_output, here_errors,
               layer_calls, layer_result>>
extractVars == <<extract_pc, extract_payload, extract_row>>
\* the variables a part of the program leaves alone
limitVars == <<limit_pc, limit_input, limit_picked>>
handlerVars == <<handler_pc, handler_body, here_api_key, handler_payload,
                 solver_result, handler_log, handler_response>>
geometryVars == <<geometry_pc, geometry_input, segment_shape_cache, segment_shape_stats,
                  municipality_errors, segment_shapes, geometry_result>>
mergeVars == <<merge_pc, merge_input, merge_answers, segment_weather, segment_traffic>>
outsideSolve == <<enrichVars, providerVars, resolverVars, builderVars, scorerVars,
                  layerVars, extractVars, limitVars, handlerVars,
                  geometryVars, mergeVars>>
outsideEnrich == <<solveVars, providerVars, resolverVars, builderVars, scorerVars,
                   layerVars, extractVars, limitVars, handlerVars,
                   geometryVars, mergeVars>>
outsideProvider == <<solveVars, enrichVars, resolverVars, builderVars, scorerVars,
                     layerVars, extractVars, limitVars, handlerVars,
                     geometryVars, mergeVars>>
outsideResolver == <<solveVars, enrichVars, providerVars, builderVars, scorerVars,
                     layerVars, extractVars, limitVars, handlerVars,
                     geometryVars, mergeVars>>
outsideBuilder == <<solveVars, enrichVars, providerVars, resolverVars, scorerVars,
                    layerVars, extractVars, limitVars, handlerVars,
                    geometryVars, mergeVars>>
outsideScorer == <<solveVars, enrichVars, providerVars, resolverVars, builderVars,
                   layerVars, extractVars, limitVars, handlerVars,
                   geometryVars, mergeVars>>
outsideLayer == <<solveVars, enrichVars, providerVars, resolverVars, builderVars,
                  scorerVars, extractVars, limitVars, handlerVars,
                  geometryVars, mergeVars>>
outsideExtract == <<solveVars, enrichVars, providerVars, resolverVars, builderVars,
                    scorerVars, layerVars, limitVars, handlerVars,
                    geometryVars, mergeVars>>
outsideLimit == <<solveVars, enrichVars, providerVars, resolverVars, builderVars,
          scorerVars, layerVars, extractVars, handlerVars, geometryVars,
                  mergeVars>>
outsideHandler == <<solveVars, enrichVars, providerVars, resolverVars, builderVars,
                    scorerVars, layerVars, extractVars, limitVars,
                    geometryVars, mergeVars>>
outsideGeometry == <<solveVars, enrichVars, providerVars, resolverVars, builderVars,
                     scorerVars, layerVars, extractVars, limitVars, handlerVars,
                     mergeVars>>
outsideMerge == <<solveVars, enrichVars, providerVars, resolverVars, builderVars,
                  scorerVars, layerVars, extractVars, limitVars, handlerVars,
                  geometryVars>>
vars == <<solveVars, enrichVars, providerVars, resolverVars, builderVars,
          scorerVars, layerVars, extractVars, limitVars, handlerVars,
          geometryVars, mergeVars>>

-----------------------------------------------------------------------------
(* Bounds of the model *)

MaxCustomers == 3
MaxVehicles == 2
\* demands a customer may carry (the field may also be absent)
DemandValues == {2, 4}
CapacityValues == {3, 5}

\* python's None, where a record is expected
None == [none |-> TRUE]
\* Node.in_route = None
NoRoute == 0
\* float("inf") and -inf
Inf == 1000 * 1000
NegInf == 0 - Inf

-----------------------------------------------------------------------------
(* The parts of the program a specification does not run stay as they are   *)
(* before their first use.                                                 *)

SolveIdle ==
    /\ pc = "off"
    /\ request = None
    /\ roads = {}
    /\ points = <<>>
    /\ distance_matrix_km = <<>>
    /\ distance_source = ""
    /\ warnings = <<>>
    /\ reachable_customers = <<>>
    /\ savings_list = <<>>
    /\ routes = <<>>
    /\ route_of = <<>>
    /\ in_route = <<>>
    /\ is_interior = <<>>
    /\ merges = <<>>
    /\ table_calls = <<>>
    /\ result = None
    /\ semantic_raised = FALSE
    /\ response = None

EnrichIdle ==
    /\ enrich_request = None
    /\ municipality_run = None
    /\ now_utc = 0
    /\ enrich_log = <<>>

ProviderIdle ==
    /\ client_kind = "none"
    /\ http_cache = <<>>
    /\ weather_cache = <<>>
    /\ traffic_cache = <<>>
    /\ routing_cache = <<>>
    /\ stats = None
    /\ wall_clock = 0
    /\ provider_log = <<>>

ResolverIdle ==
    /\ lookup = None
    /\ monotonic = 0
    /\ geocode_errors = <<>>
    /\ geocode_log = <<>>

BuilderIdle ==
    /\ builder_pc = "off"
    /\ builder_input = None
    /\ builder_segments = <<>>

ScorerIdle ==
    /\ scorer_pc = "off"
    /\ scorer_input = None
    /\ scorer_locations = <<>>

LayerIdle ==
    /\ layer_pc = "off"
    /\ layer_input = None
    /\ layer_route = None
    /\ routes_output = <<>>
    /\ here_errors = <<>>
    /\ layer_calls = <<>>
    /\ layer_result = None

ExtractIdle ==
    /\ extract_pc = "off"
    /\ extract_payload = None
    /\ extract_row = None

LimitIdle ==
    /\ limit_pc = "off"
    /\ limit_input = None
    /\ limit_picked = <<>>

HandlerIdle ==
    /\ handler_pc = "off"
    /\ handler_body = None
    /\ here_api_key = FALSE
    /\ handler_payload = None
    /\ solver_result = None
    /\ handler_log = <<>>
    /\ handler_response = None

GeometryIdle ==
    /\ geometry_pc = "off"
    /\ geometry_input = None
    /\ segment_shape_cache = <<>>
    /\ segment_shape_stats = None
    /\ municipality_errors = <<>>
    /\ segment_shapes = <<>>
    /\ geometry_result = None

MergeIdle ==
    /\ merge_pc = "off"
    /\ merge_input = None
    /\ merge_answers = None
    /\ segment_weather = None
    /\ segment_traffic = None

-----------------------------------------------------------------------------
(* Generic helpers for python lists and dicts *)

Range(s) == {s[k] : k \in DOMAIN s}

\* dict.get(key, default)
Get(d, key, default) == IF key \in DOMAIN d THEN d[key] ELSE default

\* d[key] = value on a copy
Put(d, key, value) ==
    [k \in DOMAIN d \cup {key} |-> IF k = key THEN value ELSE d[k]]

\* list(reversed(s))
Reversed(s) == [k \in 1..Len(s) |-> s[Len(s) + 1 - k]]

\* list.remove(x): drops the first element equal to x
RECURSIVE RemoveFirst(_, _)
RemoveFirst(s, x) ==
    IF s = <<>> THEN <<>>
    ELSE IF Head(s) = x THEN Tail(s)
    ELSE <<Head(s)>> \o RemoveFirst(Tail(s), x)

RECURSIVE SumSeq(_)
SumSeq(s) == IF s = <<>> THEN 0 ELSE Head(s) + SumSeq(Tail(s))

\* tuple comparison a < b of two equally long tuples of numbers
RECURSIVE LexLess(_, _)
LexLess(a, b) ==
    IF a = <<>> THEN FALSE
    ELSE IF Head(a) < Head(b) THEN TRUE
    ELSE IF Head(a) > Head(b) THEN FALSE
    ELSE LexLess(Tail(a), Tail(b))

\* list.sort(key=...): stable and ascending; keys[k] is the key tuple of s[k].
\* s[k] lands after every element with a smaller key and after every earlier
\* element with an equal key.
SortedByKey(s, keys) ==
    LET before(k) == {j \in DOMAIN s :
                        LexLess(keys[j], keys[k]) \/ (keys[j] = keys[k] /\ j < k)}
    IN  [p \in DOMAIN s |-> s[CHOOSE k \in DOMAIN s : Cardinality(before(k)) = p - 1]]

\* float arithmetic with inf: inf + x = inf, inf - x = inf for finite x
CostAdd(a, b) == IF a = Inf \/ b = Inf THEN Inf ELSE a + b
CostSub(a, b) == IF a = Inf THEN Inf ELSE a - b

-----------------------------------------------------------------------------
(* Part I.  Inputs of solve_vrp_nearest_neighbor *)

DepotId == 0
Depot == [id |-> DepotId, lat |-> 0, lng |-> 0]

\* The sites customers are placed on: the four points one degree from the
\* depot, in the order of scenario E2.
CompassSite(k) ==
    CASE k % 4 = 1 -> [lat |-> 0, lng |-> 1]
      [] k % 4 = 2 -> [lat |-> 1, lng |-> 0]
      [] k % 4 = 3 -> [lat |-> 0, lng |-> 0 - 1]
      [] OTHER     -> [lat |-> 0 - 1, lng |-> 0]

Layouts == {"compass", "paired"}

\* "compass": customer k on the k-th site; "paired": customers 2m-1 and 2m
\* share the m-th site.
SiteOf(layout, k) ==
    IF layout = "compass" THEN CompassSite(k) ELSE CompassSite((k + 1) \div 2)

\* the optional demand field: <<>> is a customer without one
DemandFields == {<<>>} \cup {<<d>> : d \in DemandValues}

Customer(k, site, field) ==
    IF field = <<>>
    THEN [id |-> k, lat |-> site.lat, lng |-> site.lng]
    ELSE [id |-> k, lat |-> site.lat, lng |-> site.lng, demand |-> field[1]]

CustomerList(n, layout, fields) ==
    [k \in 1..n |-> Customer(k, SiteOf(layout, k), fields[k])]

\* haversine_km on the depot and the compass sites, rounded to whole km:
\* one degree along the equator or a meridian is 111.195 km, two adjacent
\* sites are 157.249 km apart and two opposite ones 222.39 km.
HaversineKm(a, b) ==
    IF a.lat = b.lat /\ a.lng = b.lng THEN 0
    ELSE IF (a.lat = 0 /\ a.lng = 0) \/ (b.lat = 0 /\ b.lng = 0) THEN 111
    ELSE IF a.lat = 0 - b.lat /\ a.lng = 0 - b.lng THEN 222
    ELSE 157

\* The legs the road network may lack (the OSRM table answers null for them):
\* at most one of depot -> k, 1 -> depot, 1 -> 2, 2 -> 1.
NullLegChoices(n) ==
    {{}} \cup {{<<DepotId, k>>} : k \in 1..n} \cup {{<<1, DepotId>>}}
         \cup (IF n >= 2 THEN {{<<1, 2>>}, {<<2, 1>>}} ELSE {})

RequestsOfSize(n) ==
    {[depot |-> Depot, customers |-> CustomerList(n, layout, fields),
      vehicles |-> v, capacity |-> c, distance_mode |-> m] :
        layout \in Layouts, fields \in [1..n -> DemandFields],
        v \in 1..MaxVehicles, c \in CapacityValues, m \in {"direct", "osrm"}}

GeneralRequests == UNION {RequestsOfSize(n) : n \in 1..MaxCustomers}

\* Scenario E2 of the specification: four customers of demand 3 on the four
\* sites, two vehicles of capacity 5, direct distances.
ScenarioE2 ==
    [depot |-> Depot,
     customers |-> [k \in 1..4 |-> Customer(k, CompassSite(k), <<3>>)],
     vehicles |-> 2, capacity |-> 5, distance_mode |-> "direct"]

\* a request whose distance_mode is neither "direct" nor "osrm"
BadModeRequest ==
    [depot |-> Depot, customers |-> CustomerList(1, "compass", [k \in 1..1 |-> <<>>]),
     vehicles |-> 1, capacity |-> 3, distance_mode |-> "bogus"]

Requests == GeneralRequests \cup {ScenarioE2, BadModeRequest}

-----------------------------------------------------------------------------
(* Part I.  The distance matrix *)

\* idx_by_id[id] for a list of points with distinct ids (1-based here)
IdxById(pts, id) == CHOOSE k \in DOMAIN pts : pts[k].id = id

HasIdx(pts, id) == \E k \in DOMAIN pts : pts[k].id = id

DirectMatrix(pts) ==
    [a \in DOMAIN pts |-> [b \in DOMAIN pts |-> HaversineKm(pts[a], pts[b])]]

\* What the OSRM table service answers for a list of points when it answers
\* "Ok": metres of road per leg, null for a leg without a route, already
\* converted as in lines 132-137 (null -> inf, metres -> km).  The road
\* length of a leg is taken to be its direct length.
OsrmMatrix(pts, nullLegs) ==
    [a \in DOMAIN pts |-> [b \in DOMAIN pts |->
        IF <<pts[a].id, pts[b].id>> \in nullLegs THEN Inf
        ELSE HaversineKm(pts[a], pts[b])]]

WarnUnavailable == "OSRM table unavailable, using direct distances. Reason: timeout"
WarnInvalid == "OSRM returned invalid table payload, using direct distances."

\* what the table request ends in, after its three attempts
TableOutcomes == {"ok", "unavailable", "invalid"}

\* _build_distance_matrix_km_with_meta; "" stands for a warning of None
BuildDistanceMatrixWithMeta(pts, distance_mode, outcome, nullLegs) ==
    IF distance_mode = "direct"
    THEN [matrix |-> DirectMatrix(pts), distance_source |-> "direct", warning |-> ""]
    ELSE IF outcome = "unavailable"
    THEN [matrix |-> DirectMatrix(pts), distance_source |-> "direct_fallback",
          warning |-> WarnUnavailable]
    ELSE IF outcome = "invalid"
    THEN [matrix |-> DirectMatrix(pts), distance_source |-> "direct_fallback",
          warning |-> WarnInvalid]
    ELSE [matrix |-> OsrmMatrix(pts, nullLegs), distance_source |-> "osrm",
          warning |-> ""]

\* route_distance_from_matrix_km
RECURSIVE RouteDistanceFromMatrixKm(_, _, _)
RouteDistanceFromMatrixKm(route, pts, matrix) ==
    IF Len(route) < 2 THEN 0
    ELSE LET a == route[1]
             b == route[2]
             leg == IF ~HasIdx(pts, a.id) \/ ~HasIdx(pts, b.id)
                    THEN HaversineKm(a, b)
                    ELSE LET km == matrix[IdxById(pts, a.id)][IdxById(pts, b.id)]
                         IN  IF km = Inf THEN HaversineKm(a, b) ELSE km
         IN  leg + RouteDistanceFromMatrixKm(Tail(route), pts, matrix)

-----------------------------------------------------------------------------
(* Part I.  Clarke-Wright savings (_build_clarke_wright_routes) *)

\* Node.demand of a customer: float(customer.get("demand", 1))
NodeDemand(customer) == Get(customer, "demand", 1)

\* the demand of the node with this id (the depot node has demand 0.0)
DemandOfId(customers, id) ==
    IF id = DepotId THEN 0
    ELSE NodeDemand(customers[CHOOSE k \in DOMAIN customers : customers[k].id = id])

LegCost(pts, matrix, a, b) == matrix[IdxById(pts, a)][IdxById(pts, b)]

\* The Edge object from a to b: a depot edge (dn_edge, nd_edge: savings 0.0)
\* or a savings edge, with savings = nd_edge(a).cost + dn_edge(b).cost - cost.
\* The depot legs of a customer on the list are finite, so the only
\* non-finite savings is -inf.
EdgeOf(pts, matrix, a, b) ==
    LET cost == LegCost(pts, matrix, a, b)
    IN  [origin |-> a, end |-> b, cost |-> cost,
         savings |-> IF a = DepotId \/ b = DepotId THEN 0
                     ELSE IF cost = Inf THEN NegInf
                     ELSE LegCost(pts, matrix, a, DepotId)
                          + LegCost(pts, matrix, DepotId, b) - cost]

\* edge.inv_edge
InvEdge(pts, matrix, edge) == EdgeOf(pts, matrix, edge.end, edge.origin)

\* Route.reverse
ReverseEdges(pts, matrix, edges) ==
    [k \in 1..Len(edges) |-> InvEdge(pts, matrix, edges[Len(edges) + 1 - k])]

\* lines 247-262: the savings edges in generation order, (i, j) then (j, i)
\* for every i < j by position in the customer list
RECURSIVE SavingsEdgesFrom(_, _, _, _, _)
SavingsEdgesFrom(pts, matrix, customers, i, j) ==
    IF i >= Len(customers) THEN <<>>
    ELSE IF j > Len(customers)
    THEN SavingsEdgesFrom(pts, matrix, customers, i + 1, i + 2)
    ELSE <<EdgeOf(pts, matrix, customers[i].id, customers[j].id),
           EdgeOf(pts, matrix, customers[j].id, customers[i].id)>>
         \o SavingsEdgesFrom(pts, matrix, customers, i, j + 1)

\* line 264: savings_list.sort(key=savings, reverse=True), stable: with
\* reverse=True python keeps the original order of equal keys
SortedSavings(edges) ==
    SortedByKey(edges, [k \in DOMAIN edges |-> <<0 - edges[k].savings>>])

\* lines 266-276: one round-trip route per customer
InitialRoute(pts, matrix, customer) ==
    LET dn == EdgeOf(pts, matrix, DepotId, customer.id)
        nd == EdgeOf(pts, matrix, customer.id, DepotId)
    IN  [edges |-> <<dn, nd>>, cost |-> CostAdd(dn.cost, nd.cost),
         demand |-> NodeDemand(customer)]

\* CheckMergingConditions without the capacity test
CheckMergingConditions_NoCapacity(i, j, ir, jr, interior, rts, capacity) ==
    IF ir = jr THEN FALSE
    ELSE IF interior[i] \/ interior[j] THEN FALSE
    ELSE TRUE

\* _check_merging_conditions
CheckMergingConditions(i, j, ir, jr, interior, rts, capacity) ==
    IF ir = jr THEN FALSE
    ELSE IF interior[i] \/ interior[j] THEN FALSE
    ELSE IF rts[ir].demand + rts[jr].demand > capacity THEN FALSE
    ELSE TRUE

\* _get_depot_edge
GetDepotEdge(edges, a) ==
    LET first == edges[1]
    IN  IF (first.origin = a /\ first.end = DepotId)
           \/ (first.origin = DepotId /\ first.end = a)
        THEN first
        ELSE edges[Len(edges)]

RECURSIVE SumCosts(_)
SumCosts(edges) ==
    IF edges = <<>> THEN 0 ELSE CostAdd(Head(edges).cost, SumCosts(Tail(edges)))

\* OpenAtI without the call of Route.reverse
OpenAtI_KeepsOrientation(pts, matrix, r, i) ==
    LET i_edge == GetDepotEdge(r.edges, i)
        edges == RemoveFirst(r.edges, i_edge)
    IN  [edges |-> edges,
         cost |-> CostSub(r.cost, i_edge.cost),
         interior |-> Len(edges) > 1]

\* lines 290-296: i_route after its depot edge at i_node is removed, oriented
\* to start at the depot
OpenAtI(pts, matrix, r, i) ==
    LET i_edge == GetDepotEdge(r.edges, i)
        edges == RemoveFirst(r.edges, i_edge)
    IN  [edges |-> IF edges # <<>> /\ edges[1].origin # DepotId
                   THEN ReverseEdges(pts, matrix, edges) ELSE edges,
         cost |-> CostSub(r.cost, i_edge.cost),
         interior |-> Len(edges) > 1]

\* lines 298-304: j_route after its depot edge at j_node is removed, oriented
\* to end at the depot
OpenAtJ(pts, matrix, r, j) ==
    LET j_edge == GetDepotEdge(r.edges, j)
        edges == RemoveFirst(r.edges, j_edge)
    IN  [edges |-> IF edges # <<>> /\ edges[1].origin = DepotId
                   THEN ReverseEdges(pts, matrix, edges) ELSE edges,
         cost |-> CostSub(r.cost, j_edge.cost),
         interior |-> Len(edges) > 1]

\* lines 306-315: i_route after ij_edge and the edges of j_route are appended
MergedRoute(customers, ri, oi, oj, ij_edge) ==
    [edges |-> oi.edges \o <<ij_edge>> \o oj.edges,
     cost |-> CostAdd(CostAdd(oi.cost, ij_edge.cost), SumCosts(oj.edges)),
     demand |-> ri.demand + DemandOfId(customers, ij_edge.end)
                + SumSeq([k \in DOMAIN oj.edges |->
                            DemandOfId(customers, oj.edges[k].end)])]

-----------------------------------------------------------------------------
(* Part I.  The solver's result (solve_vrp_nearest_neighbor, lines 389-446) *)

\* lines 335-339
EligibleCustomers(customers, capacity) ==
    SelectSeq(customers, LAMBDA c : Get(c, "demand", 1) <= capacity)

\* ReachableCustomers that keeps every eligible customer
ReachableCustomers_KeepsAll(eligible, pts, matrix) == eligible

\* lines 354-360: customers with a finite leg from and to the depot
ReachableCustomers(eligible, pts, matrix) ==
    SelectSeq(eligible, LAMBDA c :
        matrix[1][IdxById(pts, c.id)] # Inf /\ matrix[IdxById(pts, c.id)][1] # Inf)

\* _route_customer_count
RouteCustomerCount(r) ==
    Cardinality({k \in DOMAIN r.edges : r.edges[k].end # DepotId})

\* SelectedRoutes keeping the tail of the sorted list instead of its head
SelectedRoutes_KeepsTail(rids, rts, vehicles) ==
    IF Len(rids) > vehicles
    THEN SubSeq(SortedByKey(rids, [k \in DOMAIN rids |->
                    <<0 - RouteCustomerCount(rts[rids[k]]),
                      0 - rts[rids[k]].demand,
                      rts[rids[k]].cost>>]),
                Len(rids) - vehicles + 1, Len(rids))
    ELSE rids

\* lines 389-398: the routes kept for the vehicles
SelectedRoutes(rids, rts, vehicles) ==
    IF Len(rids) > vehicles
    THEN SubSeq(SortedByKey(rids, [k \in DOMAIN rids |->
                    <<0 - RouteCustomerCount(rts[rids[k]]),
                      0 - rts[rids[k]].demand,
                      rts[rids[k]].cost>>]),
                1, vehicles)
    ELSE rids

\* the payload (dict) of the node with this id
Payload(depot, customers, id) ==
    IF id = depot.id THEN depot
    ELSE customers[CHOOSE k \in DOMAIN customers : customers[k].id = id]

\* _route_stops
RouteStops(pts, matrix, depot, customers, r) ==
    IF r.edges = <<>> THEN <<depot, depot>>
    ELSE LET edges == IF r.edges[1].origin # depot.id
                      THEN ReverseEdges(pts, matrix, r.edges) ELSE r.edges
             stops == <<Payload(depot, customers, edges[1].origin)>>
                      \o [k \in DOMAIN edges |-> Payload(depot, customers, edges[k].end)]
             front == IF stops[1].id # depot.id THEN <<depot>> \o stops ELSE stops
         IN  IF front[Len(front)].id # depot.id THEN front \o <<depot>> ELSE front

\* line 411: used = sum(float(stop.get("demand", 0)) for stop in stops[1:-1])
UsedOf(stops) ==
    SumSeq([k \in 1..(Len(stops) - 2) |-> Get(stops[k + 1], "demand", 0)])

\* ServedIds without the depot filter
ServedIds_Unfiltered(stops, depot) == [k \in DOMAIN stops |-> stops[k].id]

\* lines 406-408
ServedIds(stops, depot) ==
    LET kept == SelectSeq(stops, LAMBDA s : s.id # depot.id)
    IN  [k \in DOMAIN kept |-> kept[k].id]

\* lines 402-429: the entry of one vehicle (vehicle_id counts from 0)
RouteEntry(vehicle_id, selected, rts, pts, matrix, depot, customers, capacity) ==
    LET used_route == vehicle_id < Len(selected)
        stops == IF used_route
                 THEN RouteStops(pts, matrix, depot, customers, rts[selected[vehicle_id + 1]])
                 ELSE <<depot, depot>>
    IN  [vehicle |-> vehicle_id + 1,
         capacity |-> capacity,
         used |-> IF used_route THEN UsedOf(stops) ELSE 0,
         distance_km |-> RouteDistanceFromMatrixKm(stops, pts, matrix),
         stops |-> stops,
         served_customer_ids |-> IF used_route THEN ServedIds(stops, depot) ELSE <<>>]

\* RouteEntries without the entries of the vehicles left unused
RouteEntries_NoPadding(vehicles, selected, rts, pts, matrix, depot, customers, capacity) ==
    [v \in 1..(IF Len(selected) < vehicles THEN Len(selected) ELSE vehicles) |->
        RouteEntry(v - 1, selected, rts, pts, matrix, depot, customers, capacity)]

\* lines 400-429: for vehicle_id in range(vehicles)
RouteEntries(vehicles, selected, rts, pts, matrix, depot, customers, capacity) ==
    [v \in 1..vehicles |->
        RouteEntry(v - 1, selected, rts, pts, matrix, depot, customers, capacity)]

\* Unserved with the served set taken from the last vehicle only
Unserved_LastRouteOnly(customers, entries) ==
    LET served == Range(entries[Len(entries)].served_customer_ids)
        left == SelectSeq(customers, LAMBDA c : c.id \notin served)
    IN  [k \in DOMAIN left |-> left[k].id]

\* line 431
Unserved(customers, entries) ==
    LET served == UNION {Range(entries[v].served_customer_ids) : v \in DOMAIN entries}
        left == SelectSeq(customers, LAMBDA c : c.id \notin served)
    IN  [k \in DOMAIN left |-> left[k].id]

\* lines 434-446
SolverResult(req, entries, warns, source) ==
    LET unserved == Unserved(req.customers, entries)
    IN  [routes |-> entries,
         unserved_customer_ids |-> unserved,
         warnings |-> SubSeq(warns, 1, IF Len(warns) < 5 THEN Len(warns) ELSE 5),
         summary |-> [vehicles |-> req.vehicles,
                      customers |-> Len(req.customers),
                      served |-> Len(req.customers) - Len(unserved),
                      unserved |-> Len(unserved),
                      total_distance_km |->
                          SumSeq([v \in DOMAIN entries |-> entries[v].distance_km]),
                      distance_source |-> source]]

-----------------------------------------------------------------------------
(* Part II.  The /solve_vrp handler around the solver (_solve) *)

\* lines 2512-2616 of semantic_layer.py: the layer build_semantic_layer
\* returns, cut down to what _solve passes on
BuiltSemanticLayer(res) ==
    [version |-> "0.9", status |-> "ok", routes_enriched |-> Len(res.routes)]

\* SolveResponse with the handler giving up on a failed enrichment
SolveResponse_DropOnFailure(res, include_semantic_layer, outcome) ==
    IF include_semantic_layer /\ outcome = "raises"
    THEN [status_code |-> 500, body |-> [error |-> "Semantic enrichment failed"]]
    ELSE [status_code |-> 200,
          body |-> IF include_semantic_layer
                   THEN Put(res, "semantic_layer", BuiltSemanticLayer(res)) ELSE res]

\* lines 1015-1032: the response once the solver has returned `res`;
\* `outcome` is how the call of build_semantic_layer ended
SolveResponse(res, include_semantic_layer, outcome) ==
    LET body ==
          IF ~include_semantic_layer THEN res
          ELSE IF outcome = "returns"
          THEN Put(res, "semantic_layer", BuiltSemanticLayer(res))
          ELSE Put(Put(res, "semantic_layer",
                       [status |-> "failed", error |-> "exc",
                        pipeline_mode |-> "postprocessing",
                        here_data_source |-> "here"]),
                   "semantic_layer_error",
                   "Semantic enrichment failed; VRP result remains valid.")
    IN  [status_code |-> 200, body |-> body]

\* lines 1002-1007: the solver raised RuntimeError
SolverErrorResponse(message) == [status_code |-> 502, body |-> [error |-> message]]

-----------------------------------------------------------------------------
(* Actions of one /solve_vrp request *)

SolveInit ==
    /\ request \in Requests
    /\ roads \in (IF request.distance_mode = "osrm"
                  THEN NullLegChoices(Len(request.customers)) ELSE {{}})
    /\ pc = "solve"
    /\ points = <<>>
    /\ distance_matrix_km = <<>>
    /\ distance_source = ""
    /\ warnings = <<>>
    /\ reachable_customers = <<>>
    /\ savings_list = <<>>
    /\ routes = <<>>
    /\ route_of = <<>>
    /\ in_route = <<>>
    /\ is_interior = <<>>
    /\ merges = <<>>
    /\ table_calls = <<>>
    /\ result = None
    /\ semantic_raised = FALSE
    /\ response = None
    /\ EnrichIdle
    /\ ProviderIdle
    /\ ResolverIdle
    /\ BuilderIdle
    /\ ScorerIdle
    /\ LayerIdle
    /\ ExtractIdle
    /\ LimitIdle
    /\ HandlerIdle
    /\ GeometryIdle
    /\ MergeIdle

cwVars == <<savings_list, routes, route_of, in_route, is_interior, merges>>

\* lines 330-352 of the solver: eligibility and the first distance matrix
SolverStart ==
    /\ pc = "solve"
    /\ request.distance_mode \in {"direct", "osrm"}
    /\ LET eligible == EligibleCustomers(request.customers, request.capacity)
           pts == <<request.depot>> \o eligible
       IN  \E outcome \in (IF request.distance_mode = "osrm" /\ Len(pts) > 1
                           THEN TableOutcomes ELSE {"ok"}) :
             LET built == IF Len(pts) > 1
                          THEN BuildDistanceMatrixWithMeta(pts, request.distance_mode,
                                                           outcome, roads)
                          ELSE [matrix |-> <<<<0>>>>, distance_source |-> "",
                                warning |-> ""]
             IN  /\ points' = pts
                 /\ distance_matrix_km' = built.matrix
                 /\ distance_source' = IF built.distance_source # ""
                                       THEN built.distance_source
                                       ELSE request.distance_mode
                 /\ warnings' = IF built.warning # "" THEN <<built.warning>> ELSE <<>>
                 /\ table_calls' = IF request.distance_mode = "osrm" /\ Len(pts) > 1
                                    THEN <<outcome>> ELSE <<>>
    /\ pc' = "reach"
    /\ UNCHANGED outsideSolve
    /\ UNCHANGED <<request, roads, reachable_customers, cwVars, result,
                   semantic_raised, response>>

\* lines 330-331 of the solver and 1002-1007 of _solve
SolverBadMode ==
    /\ pc = "solve"
    /\ request.distance_mode \notin {"direct", "osrm"}
    /\ response' = SolverErrorResponse("distance_mode must be either 'direct' or 'osrm'.")
    /\ pc' = "responded"
    /\ UNCHANGED outsideSolve
    /\ UNCHANGED <<request, roads, solverVars, semantic_raised>>

\* lines 354-374: drop the customers without a finite depot leg and, when any
\* was dropped, build the matrix again for the rest
FilterReachable ==
    /\ pc = "reach"
    /\ LET eligible == Tail(points)
           reach == ReachableCustomers(eligible, points, distance_matrix_km)
           pts == <<request.depot>> \o reach
       IN  /\ reachable_customers' = reach
           /\ IF Len(reach) # Len(eligible)
              THEN \E outcome \in (IF Len(pts) > 1 THEN TableOutcomes ELSE {"ok"}) :
                     LET built == IF Len(pts) > 1
                                  THEN BuildDistanceMatrixWithMeta(
                                           pts, request.distance_mode, outcome, roads)
                                  ELSE [matrix |-> <<<<0>>>>, distance_source |-> "",
                                        warning |-> ""]
                     IN  /\ points' = pts
                         /\ distance_matrix_km' = built.matrix
                         /\ distance_source' = IF built.distance_source # ""
                                               THEN built.distance_source
                                               ELSE distance_source
                         /\ warnings' = IF built.warning # ""
                                        THEN Append(warnings, built.warning)
                                        ELSE warnings
                         /\ table_calls' = IF Len(pts) > 1
                                            THEN Append(table_calls, outcome)
                                            ELSE table_calls
              ELSE UNCHANGED <<points, distance_matrix_km, distance_source, warnings,
                               table_calls>>
    /\ pc' = "cw_init"
    /\ UNCHANGED outsideSolve
    /\ UNCHANGED <<request, roads, cwVars, result, semantic_raised, response>>

\* lines 376-387 and 216-276: nodes, depot edges, the sorted savings list and
\* one route per customer; no customer, no Clarke-Wright
CWInit ==
    /\ pc = "cw_init"
    /\ IF reachable_customers # <<>>
       THEN LET ids == {reachable_customers[k].id : k \in DOMAIN reachable_customers}
            IN  /\ savings_list' = SortedSavings(SavingsEdgesFrom(
                        points, distance_matrix_km, reachable_customers, 1, 2))
                /\ routes' = [k \in DOMAIN reachable_customers |->
                                reachable_customers[k].id]
                /\ route_of' = [id \in ids |->
                        InitialRoute(points, distance_matrix_km,
                            Payload(request.depot, reachable_customers, id))]
                /\ in_route' = [id \in ids \cup {DepotId} |->
                                  IF id = DepotId THEN NoRoute ELSE id]
                /\ is_interior' = [id \in ids \cup {DepotId} |-> FALSE]
                /\ pc' = "cw_loop"
       ELSE /\ pc' = "select"
            /\ UNCHANGED <<savings_list, routes, route_of, in_route, is_interior>>
    /\ UNCHANGED outsideSolve
    /\ UNCHANGED <<request, roads, points, distance_matrix_km, distance_source,
                   warnings, reachable_customers, merges, table_calls, result,
                   semantic_raised, response>>

\* lines 278-288: whether the edge at the head of the savings list merges
\* the routes of its two ends
HeadMerges ==
    LET ij_edge == Head(savings_list)
        ir == in_route[ij_edge.origin]
        jr == in_route[ij_edge.end]
    IN  /\ ir # NoRoute
        /\ jr # NoRoute
        /\ CheckMergingConditions(ij_edge.origin, ij_edge.end, ir, jr, is_interior,
                                  route_of, request.capacity)

\* lines 278-288: one iteration that pops an edge and continues
CWSkip ==
    /\ pc = "cw_loop"
    /\ savings_list # <<>>
    /\ ~HeadMerges
    /\ savings_list' = Tail(savings_list)
    /\ UNCHANGED outsideSolve
    /\ UNCHANGED <<pc, request, roads, points, distance_matrix_km, distance_source,
                   warnings, reachable_customers, routes, route_of, in_route,
                   is_interior, merges, table_calls, result, semantic_raised,
                   response>>

\* lines 278-317: one iteration that merges j_route into i_route
CWMerge ==
    /\ pc = "cw_loop"
    /\ savings_list # <<>>
    /\ HeadMerges
    /\ LET ij_edge == Head(savings_list)
           i == ij_edge.origin
           j == ij_edge.end
           ir == in_route[i]
           jr == in_route[j]
           oi == OpenAtI(points, distance_matrix_km, route_of[ir], i)
           oj == OpenAtJ(points, distance_matrix_km, route_of[jr], j)
           moved == {j} \cup {oj.edges[k].end : k \in DOMAIN oj.edges}
       IN  /\ savings_list' = Tail(savings_list)
           /\ route_of' = [route_of EXCEPT
                 ![ir] = MergedRoute(reachable_customers, route_of[ir], oi, oj, ij_edge),
                 ![jr] = [edges |-> oj.edges, cost |-> oj.cost,
                          demand |-> route_of[jr].demand]]
           /\ is_interior' = [id \in DOMAIN is_interior |->
                 IF id = i THEN is_interior[i] \/ oi.interior
                 ELSE IF id = j THEN is_interior[j] \/ oj.interior
                 ELSE is_interior[id]]
           /\ in_route' = [id \in DOMAIN in_route |->
                 IF id \in moved THEN ir ELSE in_route[id]]
           /\ routes' = RemoveFirst(routes, jr)
           /\ merges' = Append(merges, <<i, j>>)
    /\ UNCHANGED outsideSolve
    /\ UNCHANGED <<pc, request, roads, points, distance_matrix_km, distance_source,
                   warnings, reachable_customers, table_calls, result,
                   semantic_raised, response>>

\* line 319: the savings list is used up
CWReturn ==
    /\ pc = "cw_loop"
    /\ savings_list = <<>>
    /\ pc' = "select"
    /\ UNCHANGED outsideSolve
    /\ UNCHANGED <<request, roads, solverVars, semantic_raised, response>>

\* lines 389-446: select, build one entry per vehicle, return
SolverReturn ==
    /\ pc = "select"
    /\ LET selected == SelectedRoutes(routes, route_of, request.vehicles)
           entries == RouteEntries(request.vehicles, selected, route_of, points,
                                   distance_matrix_km, request.depot,
                                   reachable_customers, request.capacity)
       IN  result' = SolverResult(request, entries, warnings, distance_source)
    /\ pc' = "solved"
    /\ UNCHANGED outsideSolve
    /\ UNCHANGED <<request, roads, points, distance_matrix_km, distance_source,
                   warnings, reachable_customers, cwVars, table_calls,
                   semantic_raised, response>>

\* lines 1015-1032 of _solve: enrichment, which may raise, and the response
SolveRespond ==
    /\ pc = "solved"
    /\ \E include \in BOOLEAN :
         \E outcome \in (IF include THEN {"returns", "raises"} ELSE {"returns"}) :
           /\ response' = SolveResponse(result, include, outcome)
           /\ semantic_raised' = (include /\ outcome = "raises")
    /\ pc' = "responded"
    /\ UNCHANGED outsideSolve
    /\ UNCHANGED <<request, roads, solverVars>>

SolveNext ==
    \/ SolverStart
    \/ SolverBadMode
    \/ FilterReachable
    \/ CWInit
    \/ CWSkip
    \/ CWMerge
    \/ CWReturn
    \/ SolverReturn
    \/ SolveRespond

Spec == SolveInit /\ [][SolveNext]_vars

-----------------------------------------------------------------------------
(* Properties of the solver and of /solve_vrp *)

HasResult == result # None

AllCustomerIds == {request.customers[k].id : k \in DOMAIN request.customers}

ServedBy(v) == Range(result.routes[v].served_customer_ids)

ServedSet == UNION {ServedBy(v) : v \in DOMAIN result.routes}

UnservedSet == Range(result.unserved_customer_ids)

\* the interior stops of a route entry, in visiting order
InteriorStops(entry) == SubSeq(entry.stops, 2, Len(entry.stops) - 1)

\* the customers on a Clarke-Wright route
CustomersOn(r) == {r.edges[k].end : k \in DOMAIN r.edges} \ {DepotId}

\* C1: in _solve, when the solver has returned and build_semantic_layer
\* raises, the response is a 200 whose routes, unserved_customer_ids,
\* warnings and summary are the solver's, whose semantic_layer.status is
\* "failed", and which carries a top-level semantic_layer_error.
C1_EnrichmentFailureKeepsRouting ==
    (pc = "responded" /\ semantic_raised) =>
        /\ response.status_code = 200
        /\ response.body.routes = result.routes
        /\ response.body.unserved_customer_ids = result.unserved_customer_ids
        /\ response.body.warnings = result.warnings
        /\ response.body.summary = result.summary
        /\ response.body.semantic_layer.status = "failed"
        /\ "semantic_layer_error" \in DOMAIN response.body

C1_Witness ==
    /\ pc = "responded"
    /\ semantic_raised
    /\ ServedSet # {}
    /\ UnservedSet # {}

\* C2: served and unserved ids are disjoint and together are all customer
\* ids, no id is served by two routes, and summary.served + summary.unserved
\* is the number of customers.
C2_ServedUnservedPartition ==
    HasResult =>
        /\ ServedSet \cap UnservedSet = {}
        /\ ServedSet \cup UnservedSet = AllCustomerIds
        /\ \A v, w \in DOMAIN result.routes : v # w => ServedBy(v) \cap ServedBy(w) = {}
        /\ result.summary.served + result.summary.unserved = Len(request.customers)
        /\ result.summary.unserved = Len(result.unserved_customer_ids)

\* Clarke-Wright built more routes than there are vehicles, after a merge
C2_Witness ==
    /\ HasResult
    /\ Len(routes) > request.vehicles
    /\ merges # <<>>
    /\ ServedSet # {}

\* C3: the result has exactly `vehicles` routes, numbered 1..vehicles in
\* order.
C3_OneRoutePerVehicle ==
    HasResult =>
        /\ Len(result.routes) = request.vehicles
        /\ \A v \in DOMAIN result.routes : result.routes[v].vehicle = v

\* fewer routes than vehicles: the last vehicle is padded
C3_Witness ==
    /\ HasResult
    /\ 0 < Len(routes)
    /\ Len(routes) < request.vehicles
    /\ result.routes[request.vehicles].stops = <<request.depot, request.depot>>

\* C4 (as claimed): each route's `used` is the sum of the demands of its
\* interior stops, and the sum of `used` is the sum of the demands of the
\* served customers, a customer's demand being the value the capacity check
\* used for it (1 when the demand field is absent).
C4_UsedIsDemandOfStops ==
    HasResult =>
        /\ \A v \in DOMAIN result.routes :
              result.routes[v].used =
                  SumSeq([k \in DOMAIN InteriorStops(result.routes[v]) |->
                            NodeDemand(InteriorStops(result.routes[v])[k])])
        /\ SumSeq([v \in DOMAIN result.routes |-> result.routes[v].used]) =
              SumSeq([k \in DOMAIN request.customers |->
                        IF request.customers[k].id \in ServedSet
                        THEN NodeDemand(request.customers[k]) ELSE 0])

\* C5: in the savings loop every route's accumulated demand, and the demand
\* of the customers on it, is at most capacity; every route of the result
\* has used <= capacity; a customer whose demand exceeds capacity is on no
\* route.
C5_CapacityRespected ==
    /\ pc \in {"cw_loop", "select"} =>
          \A k \in DOMAIN routes :
              /\ route_of[routes[k]].demand <= request.capacity
              /\ SumSeq([c \in DOMAIN reachable_customers |->
                    IF reachable_customers[c].id \in CustomersOn(route_of[routes[k]])
                    THEN NodeDemand(reachable_customers[c]) ELSE 0])
                 = route_of[routes[k]].demand
    /\ HasResult =>
          /\ \A v \in DOMAIN result.routes : result.routes[v].used <= request.capacity
          /\ \A k \in DOMAIN request.customers :
                NodeDemand(request.customers[k]) > request.capacity
                    => request.customers[k].id \notin ServedSet

\* a merge filled a route to capacity while edges are still to be tried
C5_Witness ==
    /\ pc = "cw_loop"
    /\ merges # <<>>
    /\ savings_list # <<>>
    /\ \E k \in DOMAIN routes : route_of[routes[k]].demand = request.capacity
    /\ \E k \in DOMAIN request.customers :
          NodeDemand(request.customers[k]) > request.capacity

\* C6 (as claimed): in scenario E2 both vehicles are used, each route serves
\* two customers and the demand served is 12.
C6_E2TwoCustomersEach ==
    (HasResult /\ request = ScenarioE2) =>
        /\ \A v \in DOMAIN result.routes :
              Len(result.routes[v].served_customer_ids) = 2
        /\ SumSeq([v \in DOMAIN result.routes |-> result.routes[v].used]) = 12

\* C6 (amended): in scenario E2 both vehicles are used, each route serves one
\* customer (3 + 3 exceeds the capacity of 5, so nothing merges), the demand
\* served is 6 and customers 3 and 4 stay unserved.
C6_E2OneCustomerEach ==
    (HasResult /\ request = ScenarioE2) =>
        /\ Len(result.routes) = 2
        /\ result.routes[1].served_customer_ids = <<1>>
        /\ result.routes[2].served_customer_ids = <<2>>
        /\ \A v \in DOMAIN result.routes : result.routes[v].used = 3
        /\ SumSeq([v \in DOMAIN result.routes |-> result.routes[v].used]) = 6
        /\ result.unserved_customer_ids = <<3, 4>>
        /\ merges = <<>>

C6_Witness ==
    /\ HasResult
    /\ request = ScenarioE2
    /\ pc = "solved"

\* the customers for which the OSRM table, answering "Ok" to the first
\* request, gave a null leg from or to the depot
NullDepotLegCustomers ==
    IF request.distance_mode = "osrm" /\ table_calls # <<>> /\ table_calls[1] = "ok"
    THEN {id \in AllCustomerIds :
            /\ NodeDemand(Payload(request.depot, request.customers, id))
                  <= request.capacity
            /\ (<<DepotId, id>> \in roads \/ <<id, DepotId>> \in roads)}
    ELSE {}

UsingDirectDistances(w) == w \in {WarnUnavailable, WarnInvalid}

HasDirectWarning == \E k \in DOMAIN result.warnings : UsingDirectDistances(result.warnings[k])

\* capacity and vehicles suffice: every customer fits a vehicle of its own
CapacityAndVehiclesSuffice ==
    /\ Len(request.customers) <= request.vehicles
    /\ \A k \in DOMAIN request.customers :
          NodeDemand(request.customers[k]) <= request.capacity

C8_StopsShape ==
    HasResult =>
        \A v \in DOMAIN result.routes :
            LET entry == result.routes[v]
                inner == InteriorStops(entry)
            IN  /\ Len(entry.stops) >= 2
                /\ entry.stops[1] = request.depot
                /\ entry.stops[Len(entry.stops)] = request.depot
                /\ \A k \in DOMAIN inner : inner[k].id # request.depot.id
                /\ entry.served_customer_ids = [k \in DOMAIN inner |-> inner[k].id]
                /\ v > Len(routes) =>
                      /\ entry.stops = <<request.depot, request.depot>>
                      /\ entry.served_customer_ids = <<>>

\* one vehicle visits three customers while another is left unused
C8_Witness ==
    /\ HasResult
    /\ \E v \in DOMAIN result.routes : Len(result.routes[v].served_customer_ids) = 3
    /\ \E v \in DOMAIN result.routes :
          /\ v > Len(routes)
          /\ result.routes[v].stops = <<request.depot, request.depot>>

-----------------------------------------------------------------------------
(* Part III.  /enrich_municipality (_enrich_municipality) and the merge of *)
(* a municipality pass into an existing semantic layer                     *)
(* (_merge_municipality_semantic).  isinstance(x, dict) / isinstance(x,    *)
(* list) of a field is modelled by the key being present.                  *)

\* bounds of the enrichment model
MaxEnrichCalls == 2
MaxEnrichRoutes == 2
\* the errors list keeps its first 40 entries
ErrorsLimit == 40

\* s[:n]
Take(s, n) == SubSeq(s, 1, IF Len(s) < n THEN Len(s) ELSE n)

EmptyDict == [key \in {} |-> 0]

\* str(key).startswith("municipality_"), over the keys of config and summary
StartsWithMunicipality(key) ==
    key \in {"municipality_step_km", "municipality_enrichment_enabled",
             "municipality_records", "municipality_api_status"}

\* str(key).startswith("province_")
StartsWithProvince(key) ==
    key \in {"province_capital_lookup_enabled", "province_capital_records"}

\* the copy of `base` with the keys `keys` taken from `over`
Overlaid(base, over, keys) ==
    [key \in DOMAIN base \cup keys |-> IF key \in keys THEN over[key] ELSE base[key]]

\* lines 1115-1119 and 1147-1151: {key(x): x for x in s}, a later entry
\* replacing an earlier one with the same key
LastWith(s, field, value) ==
    s[CHOOSE k \in DOMAIN s :
        /\ s[k][field] = value
        /\ \A l \in DOMAIN s : l > k => s[l][field] # value]

KeysOf(s, field) == {s[k][field] : k \in DOMAIN s}

SegmentOverlayFields ==
    {"municipality_trace", "municipality_names", "province_names",
     "province_capital_names"}

RouteOverlayFields ==
    {"stop_municipality_links", "province_vector", "province_capital_vector",
     "municipality_vector"}

\* lines 1154-1174: one base segment of a matched route
MergedSegment(base_segment, municipality_segments) ==
    IF /\ "segment_index" \in DOMAIN base_segment
       /\ base_segment.segment_index \in KeysOf(municipality_segments, "segment_index")
    THEN LET municipality_segment ==
                 LastWith(municipality_segments, "segment_index",
                          base_segment.segment_index)
         IN  [key \in DOMAIN base_segment \cup SegmentOverlayFields |->
                 IF key \in SegmentOverlayFields
                 THEN Get(municipality_segment, key, <<>>)
                 ELSE base_segment[key]]
    ELSE base_segment

\* MergedSemanticRoute taking the whole segment list of the municipality pass
\* instead of overlaying its four fields
MergedSemanticRoute_ReplacesSegments(base_route, municipality_routes) ==
    IF base_route.vehicle \notin KeysOf(municipality_routes, "vehicle")
    THEN base_route
    ELSE LET municipality_route ==
                 LastWith(municipality_routes, "vehicle", base_route.vehicle)
             fields == RouteOverlayFields \cap DOMAIN municipality_route
         IN  Put(Overlaid(base_route, municipality_route, fields),
                 "segment_context", Get(municipality_route, "segment_context", <<>>))

\* lines 1122-1178: one base route
MergedSemanticRoute(base_route, municipality_routes) ==
    IF base_route.vehicle \notin KeysOf(municipality_routes, "vehicle")
    THEN base_route
    ELSE LET municipality_route ==
                 LastWith(municipality_routes, "vehicle", base_route.vehicle)
             fields == RouteOverlayFields \cap DOMAIN municipality_route
             route == Overlaid(base_route, municipality_route, fields)
             base_segments == Get(base_route, "segment_context", <<>>)
             municipality_segments == Get(municipality_route, "segment_context", <<>>)
             merged_segments ==
                 [k \in DOMAIN base_segments |->
                     MergedSegment(base_segments[k], municipality_segments)]
         IN  IF merged_segments # <<>>
             THEN Put(route, "segment_context", merged_segments)
             ELSE route

\* _merge_municipality_semantic
MergeMunicipalitySemantic(base_semantic, municipality_semantic) ==
    LET municipality_config == Get(municipality_semantic, "config", EmptyDict)
        base_config ==
            Overlaid(Get(base_semantic, "config", EmptyDict), municipality_config,
                     {key \in DOMAIN municipality_config :
                         \/ StartsWithMunicipality(key)
                         \/ StartsWithProvince(key)
                         \/ key \in {"distance_mode", "distance_source"}})
        municipality_summary == Get(municipality_semantic, "summary", EmptyDict)
        base_summary ==
            Overlaid(Get(base_semantic, "summary", EmptyDict), municipality_summary,
                     {key \in DOMAIN municipality_summary :
                         StartsWithMunicipality(key) \/ StartsWithProvince(key)})
        top_level == {"municipality_api", "municipality_address_book",
                      "municipality_phase1_input_points",
                      "municipality_post_output_notice",
                      "municipality_post_output_warnings"}
                     \cap DOMAIN municipality_semantic
        stamps == {"version", "generated_at_utc"}
        base_routes == Get(base_semantic, "routes", <<>>)
        municipality_routes == Get(municipality_semantic, "routes", <<>>)
        merged_routes ==
            [k \in DOMAIN base_routes |->
                MergedSemanticRoute(base_routes[k], municipality_routes)]
        changed ==
            [config |-> base_config,
             summary |-> base_summary,
             version |-> Get(municipality_semantic, "version",
                             Get(base_semantic, "version", None)),
             generated_at_utc |-> Get(municipality_semantic, "generated_at_utc",
                                      Get(base_semantic, "generated_at_utc", None)),
             errors |-> Take(Get(base_semantic, "errors", <<>>)
                             \o Get(municipality_semantic, "errors", <<>>),
                             ErrorsLimit),
             routes |-> merged_routes]
        written == top_level \cup stamps \cup {"errors"}
                   \cup (IF DOMAIN base_config # {} THEN {"config"} ELSE {})
                   \cup (IF DOMAIN base_summary # {} THEN {"summary"} ELSE {})
                   \cup (IF merged_routes # <<>> THEN {"routes"} ELSE {})
    IN  [key \in DOMAIN base_semantic \cup written |->
            IF key \in top_level THEN municipality_semantic[key]
            ELSE IF key \in written THEN changed[key]
            ELSE base_semantic[key]]

-----------------------------------------------------------------------------
(* The inputs of /enrich_municipality *)

\* the stop lists a route of the prior routing result may have
StopLists == {<<0, 0>>, <<0, 1, 0>>}

VrpRoute(vehicle, stops) ==
    [vehicle |-> vehicle, stops |-> stops, distance_km |-> 111 * (Len(stops) - 1),
     served_customer_ids |-> SubSeq(stops, 2, Len(stops) - 1)]

VrpRouteLists ==
    UNION {[1..n -> StopLists] : n \in 1..MaxEnrichRoutes}

\* one segment as an earlier pass with the HERE platform on and municipality
\* enrichment off left it; `traced` tells whether it carries admin fields
BaseSegment(vehicle, index, traced) ==
    LET here == [segment_index |-> index,
                 distance_km |-> 111,
                 cumulative_distance_km |-> 111 * (index + 1),
                 weather |-> [source |-> "here", vehicle |-> vehicle, at |-> index],
                 traffic |-> [congestion |-> "low"]]
    IN  IF traced
        THEN [key \in DOMAIN here \cup SegmentOverlayFields |->
                 IF key \in SegmentOverlayFields THEN <<>> ELSE here[key]]
        ELSE here

BaseRoute(vehicle, indexes, traced) ==
    LET plain == [vehicle |-> vehicle,
                  route_distance_km |-> 111 * Len(indexes),
                  semantic_locations |-> <<[id |-> "poi", vehicle |-> vehicle]>>]
        vectors == IF traced
                   THEN [key \in DOMAIN plain \cup RouteOverlayFields |->
                            IF key \in RouteOverlayFields THEN <<>> ELSE plain[key]]
                   ELSE plain
    IN  IF indexes = <<>> THEN vectors
        ELSE Put(vectors, "segment_context",
                 [k \in DOMAIN indexes |-> BaseSegment(vehicle, indexes[k], traced)])

\* the vehicles of the routes of an existing layer, in its order
BaseVehicleLists == {<<1>>, <<2, 1>>, <<1, 3>>}
\* the segment indexes of each of them, in its order
BaseIndexLists == {<<>>, <<0>>, <<1, 0, 2>>}
BaseErrorLists ==
    {<<>>, <<"here: timeout">>,
     [k \in 1..(ErrorsLimit - 1) |-> "here: timeout"],
     [k \in 1..ErrorsLimit |-> "here: timeout"]}

BaseSemanticLayer(vehicles, indexes, errors, traced) ==
    [version |-> "0.9",
     generated_at_utc |-> 0,
     config |-> [use_here_platform |-> TRUE, semantic_top_k |-> 5,
                 municipality_enrichment_enabled |-> FALSE,
                 municipality_step_km |-> 10,
                 province_capital_lookup_enabled |-> FALSE,
                 distance_source |-> "direct"],
     summary |-> [routes_enriched |-> Len(vehicles), here_errors |-> Len(errors),
                  municipality_records |-> 0,
                  municipality_api_status |-> "disabled",
                  province_capital_records |-> 0],
     errors |-> errors,
     municipality_api |-> [status |-> "disabled"],
     municipality_post_output_notice |->
         "Municipality fallback warning: municipality enrichment disabled.",
     routes |-> [k \in DOMAIN vehicles |-> BaseRoute(vehicles[k], indexes, traced)]]

BaseSemanticLayers ==
    {BaseSemanticLayer(vehicles, indexes, errors, traced) :
        vehicles \in BaseVehicleLists, indexes \in BaseIndexLists,
        errors \in BaseErrorLists, traced \in BOOLEAN}

VrpResults ==
    LET bare == {[routes |-> [k \in DOMAIN stops |-> VrpRoute(k, stops[k])],
                  summary |-> [distance_source |-> "direct"]] :
                    stops \in VrpRouteLists}
    IN  bare \cup {Put(res, "semantic_layer", layer) :
                      res \in bare, layer \in BaseSemanticLayers}

\* bodies _enrich_municipality answers 400 to: no vrp_result, or one
\* that has no routes list
BadEnrichRequests ==
    {[payload |-> [distance_mode |-> "direct"]],
     [payload |-> [distance_mode |-> "direct"],
      vrp_result |-> [summary |-> [distance_source |-> "direct"]]]}

EnrichRequests ==
    {[payload |-> [distance_mode |-> "direct"], vrp_result |-> res] :
        res \in VrpResults} \cup BadEnrichRequests

\* what the municipality lookups answer during a pass: the place they
\* resolve every sample to and the errors they report
MunicipalityRuns ==
    {[place |-> place, errors |-> errors] :
        place \in {"Madrid", "Toledo"},
        errors \in {<<>>, <<"nominatim: timeout">>,
                    <<"nominatim: timeout", "capital: unknown">>}}

-----------------------------------------------------------------------------
(* The municipality pass and the handler *)

\* lines 1211-1221: the payload the pass runs with
SemanticPayload(payload) ==
    [key \in DOMAIN payload \cup {"include_semantic_layer",
                                  "municipality_enrichment_enabled",
                                  "use_here_platform", "here_pipeline_mode",
                                  "here_data_source"} |->
        IF key \in {"include_semantic_layer", "municipality_enrichment_enabled"}
        THEN TRUE
        ELSE IF key = "use_here_platform" THEN FALSE
        ELSE IF key = "here_pipeline_mode"
        THEN Get(payload, "here_pipeline_mode", "postprocessing")
        ELSE IF key = "here_data_source"
        THEN Get(payload, "here_data_source", "here")
        ELSE payload[key]]

\* lines 2307-2333 of semantic_layer.py: one segment of the pass, the HERE
\* platform being off
MunicipalitySegment(vehicle, index, run) ==
    [segment_index |-> index,
     distance_km |-> 111,
     cumulative_distance_km |-> 111 * (index + 1),
     weather |-> [source |-> "none"],
     traffic |-> [congestion |-> "unknown"],
     municipality_trace |-> <<[municipality |-> run.place, vehicle |-> vehicle,
                               segment |-> index]>>,
     municipality_names |-> <<run.place>>,
     province_names |-> <<run.place>>,
     province_capital_names |-> <<run.place>>]

\* lines 2346-2359 of semantic_layer.py: one route of the pass; it reads the
\* vehicle and the stops of the routing result's route
MunicipalityRoute(route, run) ==
    [vehicle |-> route.vehicle,
     route_distance_km |-> route.distance_km,
     served_customer_ids |-> route.served_customer_ids,
     stop_municipality_links |->
         [k \in DOMAIN route.stops |->
             [stop_id |-> route.stops[k], municipality |-> run.place]],
     province_vector |-> <<run.place>>,
     province_capital_vector |-> <<run.place>>,
     municipality_vector |-> <<run.place>>,
     semantic_locations |-> <<>>,
     segment_context |->
         [k \in 1..(Len(route.stops) - 1) |->
             MunicipalitySegment(route.vehicle, k - 1, run)]]

\* lines 2512-2616 of semantic_layer.py: the layer build_semantic_layer returns
\* for the routes of `vrp_result`; it reads nothing else of the result but
\* summary.distance_source
MunicipalitySemantic(vrp_result, semantic_payload, run, now) ==
    [version |-> "0.9",
     generated_at_utc |-> now,
     config |-> [use_here_platform |-> semantic_payload.use_here_platform,
                 semantic_top_k |-> 5,
                 municipality_enrichment_enabled |->
                     semantic_payload.municipality_enrichment_enabled,
                 municipality_step_km |-> 10,
                 province_capital_lookup_enabled |-> TRUE,
                 distance_mode |-> Get(semantic_payload, "distance_mode", "direct"),
                 distance_source |->
                     Get(Get(vrp_result, "summary", EmptyDict), "distance_source",
                         Get(semantic_payload, "distance_mode", "direct"))],
     summary |-> [routes_enriched |-> Len(vrp_result.routes), here_errors |-> 0,
                  municipality_records |->
                      SumSeq([k \in DOMAIN vrp_result.routes |->
                                 Len(vrp_result.routes[k].stops) - 1]),
                  municipality_api_status |->
                      IF run.errors = <<>> THEN "ok" ELSE "partial",
                  province_capital_records |-> 1],
     errors |-> Take(run.errors, ErrorsLimit),
     municipality_api |-> [status |-> IF run.errors = <<>> THEN "ok" ELSE "partial"],
     municipality_address_book |-> [place |-> run.place],
     municipality_phase1_input_points |-> Len(vrp_result.routes),
     municipality_post_output_notice |->
         IF run.errors = <<>>
         THEN "Municipality fallback warning: none."
         ELSE "Municipality fallback warning: some lookups failed.",
     municipality_post_output_warnings |-> run.errors,
     routes |-> [k \in DOMAIN vrp_result.routes |->
                    MunicipalityRoute(vrp_result.routes[k], run)]]

\* lines 1203-1204: isinstance(vrp_result, dict) and
\* isinstance(vrp_result.get("routes"), list)
ValidEnrichBody(body) ==
    /\ "vrp_result" \in DOMAIN body
    /\ "routes" \in DOMAIN body.vrp_result

\* EnrichResponse that answers a failed pass with a failed layer in place of
\* the existing one
EnrichResponse_ReplacesLayerOnFailure(vrp_result, municipality_semantic, raised) ==
    LET body ==
          IF raised
          THEN Put(Put(Put(vrp_result, "semantic_layer", [status |-> "failed"]),
                       "semantic_layer_error",
                       "Municipality enrichment failed; base VRP result remains valid."),
                   "municipality_enrichment_error", "exc")
          ELSE IF "semantic_layer" \in DOMAIN vrp_result
          THEN Put(vrp_result, "semantic_layer",
                   MergeMunicipalitySemantic(vrp_result.semantic_layer,
                                             municipality_semantic))
          ELSE Put(vrp_result, "semantic_layer", municipality_semantic)
    IN  [status_code |-> 200, body |-> body]

\* lines 1223-1245: the response; `raised` tells that build_semantic_layer
\* raised
EnrichResponse(vrp_result, municipality_semantic, raised) ==
    LET body ==
          IF raised
          THEN Put(Put(vrp_result, "semantic_layer_error",
                       "Municipality enrichment failed; base VRP result remains valid."),
                   "municipality_enrichment_error", "exc")
          ELSE IF "semantic_layer" \in DOMAIN vrp_result
          THEN Put(vrp_result, "semantic_layer",
                   MergeMunicipalitySemantic(vrp_result.semantic_layer,
                                             municipality_semantic))
          ELSE Put(vrp_result, "semantic_layer", municipality_semantic)
    IN  [status_code |-> 200, body |-> body]

\* the body of the call to come: the first request, then the same payload
\* with the result the previous call answered
EnrichBody ==
    IF enrich_log = <<>> THEN enrich_request
    ELSE [payload |-> enrich_request.payload,
          vrp_result |-> enrich_log[Len(enrich_log)].response.body]

EnrichInit ==
    /\ enrich_request \in EnrichRequests
    /\ municipality_run \in MunicipalityRuns
    /\ now_utc = 1
    /\ enrich_log = <<>>
    /\ SolveIdle
    /\ ProviderIdle
    /\ ResolverIdle
    /\ BuilderIdle
    /\ ScorerIdle
    /\ LayerIdle
    /\ ExtractIdle
    /\ LimitIdle
    /\ HandlerIdle
    /\ GeometryIdle
    /\ MergeIdle

\* lines 1203-1209: 400 for a body without a vrp_result with routes
EnrichBadRequest ==
    /\ enrich_log = <<>>
    /\ ~ValidEnrichBody(EnrichBody)
    /\ enrich_log' = <<[vrp_result |-> None, municipality_semantic |-> None,
                        raised |-> FALSE,
                        response |-> [status_code |-> 400,
                                      body |-> [error |->
                                          "vrp_result with routes is required"]]]>>
    /\ UNCHANGED <<enrich_request, municipality_run, now_utc>>
    /\ UNCHANGED outsideEnrich

\* lines 1203-1245: one call of the handler with a well-formed body
EnrichMunicipality ==
    /\ Len(enrich_log) < MaxEnrichCalls
    /\ ValidEnrichBody(EnrichBody)
    /\ \E raised \in BOOLEAN :
         LET vrp_result == EnrichBody.vrp_result
             municipality_semantic ==
                 IF raised THEN None
                 ELSE MunicipalitySemantic(vrp_result,
                                           SemanticPayload(EnrichBody.payload),
                                           municipality_run, now_utc)
         IN  enrich_log' = Append(enrich_log,
                 [vrp_result |-> vrp_result,
                  municipality_semantic |-> municipality_semantic,
                  raised |-> raised,
                  response |-> EnrichResponse(vrp_result, municipality_semantic,
                                              raised)])
    /\ now_utc' = now_utc + 1
    /\ UNCHANGED <<enrich_request, municipality_run>>
    /\ UNCHANGED outsideEnrich

EnrichNext ==
    \/ EnrichBadRequest
    \/ EnrichMunicipality

SpecEnrich == EnrichInit /\ [][EnrichNext]_vars

-----------------------------------------------------------------------------
(* Properties of /enrich_municipality and of the merge *)

\* a semantic layer without its generation stamp
WithoutGeneratedAt(layer) ==
    [key \in DOMAIN layer \ {"generated_at_utc"} |-> layer[key]]

\* the k-th call built its municipality pass and answered with a layer
Enriched(k) ==
    /\ k \in DOMAIN enrich_log
    /\ enrich_log[k].response.status_code = 200
    /\ ~enrich_log[k].raised

\* the k-th call merged its pass into an existing layer
Merged(k) == Enriched(k) /\ "semantic_layer" \in DOMAIN enrich_log[k].vrp_result

\* C9 (as claimed): a second call of /enrich_municipality with the same
\* payload on the result of the first call answers a semantic_layer equal to
\* the first call's, generated_at_utc apart.
C9_SecondEnrichSameLayer ==
    (Enriched(1) /\ Enriched(2)) =>
        WithoutGeneratedAt(enrich_log[2].response.body.semantic_layer)
            = WithoutGeneratedAt(enrich_log[1].response.body.semantic_layer)

\* every field of `merged` outside `fields` is a field of `base` with the
\* value it has there, and `merged` adds no field outside `fields`
SameOutside(base, merged, fields) ==
    /\ DOMAIN base \subseteq DOMAIN merged
    /\ DOMAIN merged \ DOMAIN base \subseteq fields
    /\ \A key \in DOMAIN base \ fields : merged[key] = base[key]

\* the segments of the merged route against those of the base route and of
\* the municipality route joined to it
SegmentsFramed(base_route, merged_route, municipality_route) ==
    LET base_segments == Get(base_route, "segment_context", <<>>)
        merged_segments == Get(merged_route, "segment_context", <<>>)
        municipality_segments == Get(municipality_route, "segment_context", <<>>)
    IN  /\ ("segment_context" \in DOMAIN merged_route)
              = ("segment_context" \in DOMAIN base_route)
        /\ Len(merged_segments) = Len(base_segments)
        /\ \A k \in DOMAIN base_segments :
              LET joined == {l \in DOMAIN municipality_segments :
                                municipality_segments[l].segment_index
                                    = base_segments[k].segment_index}
              IN  /\ SameOutside(base_segments[k], merged_segments[k],
                                 SegmentOverlayFields)
                  /\ joined = {} => merged_segments[k] = base_segments[k]
                  /\ \A l \in joined : \A key \in SegmentOverlayFields :
                        merged_segments[k][key] = municipality_segments[l][key]

\* C10: _merge_municipality_semantic keeps the base routes in base order;
\* a route joined by vehicle to the municipality pass takes from it
\* stop_municipality_links, province_vector, province_capital_vector and
\* municipality_vector, and its segments joined by segment_index take
\* municipality_trace, municipality_names, province_names and
\* province_capital_names; every other route and segment field keeps its
\* base value, and a route or segment without a match is unchanged.
C10_MergeFramesRoutes ==
    \A c \in DOMAIN enrich_log :
        Merged(c) =>
            LET base_routes == Get(enrich_log[c].vrp_result.semantic_layer, "routes", <<>>)
                merged_routes == Get(enrich_log[c].response.body.semantic_layer,
                                     "routes", <<>>)
                municipality_routes == enrich_log[c].municipality_semantic.routes
            IN  /\ Len(merged_routes) = Len(base_routes)
                /\ \A k \in DOMAIN base_routes :
                      LET joined == {l \in DOMAIN municipality_routes :
                                        municipality_routes[l].vehicle
                                            = base_routes[k].vehicle}
                      IN  /\ merged_routes[k].vehicle = base_routes[k].vehicle
                          /\ SameOutside(base_routes[k], merged_routes[k],
                                         RouteOverlayFields \cup {"segment_context"})
                          /\ joined = {} => merged_routes[k] = base_routes[k]
                          /\ \A l \in joined :
                                /\ \A key \in RouteOverlayFields :
                                      merged_routes[k][key] = municipality_routes[l][key]
                                /\ SegmentsFramed(base_routes[k], merged_routes[k],
                                                  municipality_routes[l])

\* a merge into a layer listing vehicle 2 before vehicle 1, whose segments
\* come in the order 1, 0, 2: both routes are joined, the first to a route of
\* one segment, so that a segment is joined and another is not
C10_Witness ==
    /\ Merged(1)
    /\ LET base_routes == enrich_log[1].vrp_result.semantic_layer.routes
           merged_routes == enrich_log[1].response.body.semantic_layer.routes
           municipality_routes == enrich_log[1].municipality_semantic.routes
       IN  /\ Len(base_routes) = 2
           /\ base_routes[1].vehicle = 2
           /\ Len(municipality_routes) = 2
           /\ Len(municipality_routes[2].segment_context) = 1
           /\ "segment_context" \in DOMAIN base_routes[1]
           /\ Len(base_routes[1].segment_context) = 3
           /\ merged_routes[1].segment_context[1] = base_routes[1].segment_context[1]
           /\ merged_routes[1].segment_context[2] # base_routes[1].segment_context[2]
           /\ merged_routes[1].segment_context[2].weather
                 = base_routes[1].segment_context[2].weather

EnrichErrorKeys == {"semantic_layer_error", "municipality_enrichment_error"}

\* C11: in /enrich_municipality, when build_semantic_layer raises, the
\* response is a 200 whose body holds every field of the submitted
\* vrp_result with its value (routes, and the existing semantic_layer when
\* there is one) and, besides them, semantic_layer_error and
\* municipality_enrichment_error.
C11_EnrichFailureKeepsResult ==
    \A c \in DOMAIN enrich_log :
        enrich_log[c].raised =>
            LET submitted == enrich_log[c].vrp_result
                body == enrich_log[c].response.body
            IN  /\ enrich_log[c].response.status_code = 200
                /\ DOMAIN body = DOMAIN submitted \cup EnrichErrorKeys
                /\ \A key \in DOMAIN submitted \ EnrichErrorKeys :
                      body[key] = submitted[key]
                /\ body.routes = submitted.routes
                /\ body.semantic_layer_error
                      = "Municipality enrichment failed; base VRP result remains valid."

\* the pass of a second call raised on a result that carries the layer the
\* first call merged
C11_Witness ==
    /\ Len(enrich_log) = 2
    /\ Merged(1)
    /\ enrich_log[2].raised
    /\ "semantic_layer" \in DOMAIN enrich_log[2].response.body
    /\ enrich_log[2].response.body.semantic_layer.errors # <<>>

-----------------------------------------------------------------------------
(* Part IV.  The provider clients: HerePlatformClient (here_platform.py)   *)
(* and HerePlatformEmulator (here_emulator.py).  Coordinates are whole     *)
(* ten-millionths of a degree, times whole minutes.  What the HERE service *)
(* answers is a payload stamped with the url and the minute of the         *)
(* request; what the emulator draws from random.Random is a value of the   *)
(* tuple its seed is hashed from.                                          *)

\* bounds of the provider model
MaxProviderCalls == 2
MaxClock == 5

\* constructor arguments of the client
TrafficRadiusM == 300
ForecastWindowHours == 1
ForecastStepMin == 60

\* round(x, n) for a coordinate: `unit` is 10^(7-n) ten-millionths
Round(x, unit) == ((x + (unit \div 2)) \div unit) * unit
Round3(x) == Round(x, 10000)
Round4(x) == Round(x, 1000)
Round5(x) == Round(x, 100)

\* f"{x:.6f}", the form of a coordinate in a url
Fixed6(x) == Round(x, 10)

\* _to_utc_hour
ToUtcHour(time) == time - (time % 60)

\* the length in minutes of a traffic-status bucket of the emulator
BucketMinutes == 5

\* now_utc - timedelta(minutes=now_utc.minute % 5)
FiveMinBucket(time) == time - (time % BucketMinutes)

\* the departures of fetch_traffic_forecast: reference hour, then every
\* forecast_step_min while current <= end_time
RECURSIVE DeparturesFrom(_, _)
DeparturesFrom(current, end_time) ==
    IF current > end_time THEN <<>>
    ELSE <<current>> \o DeparturesFrom(current + ForecastStepMin, end_time)

Departures(reference_hour) ==
    DeparturesFrom(reference_hour, reference_hour + (60 * ForecastWindowHours))

NewStats ==
    [cache_hits |-> 0, http_requests |-> 0, weather_queries |-> 0,
     traffic_queries |-> 0, routing_queries |-> 0, errors |-> 0]

Bump(st, counter, by) == [st EXCEPT ![counter] = @ + by]

\* the client's state as one record
Client ==
    [http_cache |-> http_cache, weather_cache |-> weather_cache,
     traffic_cache |-> traffic_cache, routing_cache |-> routing_cache,
     stats |-> stats]

\* HerePlatformClient._get_json: `outcome` is how urlopen ends ("fails": it
\* raises; otherwise the content of the payload); `requests` counts the calls
\* of urlopen
GetJson(c, url, outcome, now) ==
    IF url \in DOMAIN c.http_cache
    THEN [client |-> [c EXCEPT !.stats = Bump(@, "cache_hits", 1)],
          payload |-> c.http_cache[url], raised |-> FALSE, requests |-> 0]
    ELSE IF outcome = "fails"
    THEN [client |-> [c EXCEPT !.stats = Bump(@, "errors", 1)],
          payload |-> None, raised |-> TRUE, requests |-> 1]
    ELSE LET payload == [url |-> url, content |-> outcome, at |-> now]
         IN  [client |-> [c EXCEPT !.http_cache = Put(@, url, payload),
                                   !.stats = Bump(@, "http_requests", 1)],
              payload |-> payload, raised |-> FALSE, requests |-> 1]

\* HerePlatformClient.fetch_weather
LiveFetchWeather(c, lat, lng, reference_time, outcome, now) ==
    LET cache_key == <<Round4(lat), Round4(lng), ToUtcHour(reference_time)>>
    IN  IF cache_key \in DOMAIN c.weather_cache
        THEN [client |-> [c EXCEPT !.stats = Bump(@, "cache_hits", 1)],
              result |-> c.weather_cache[cache_key], raised |-> FALSE,
              requests |-> 0, attempts |-> 0]
        ELSE LET got == GetJson(c, <<"weather", Fixed6(lat), Fixed6(lng)>>, outcome, now)
                 answer == [realtime |-> got.payload,
                            forecast_24h |-> [payload |-> got.payload,
                                              from |-> reference_time]]
             IN  IF got.raised
                 THEN [client |-> got.client, result |-> None, raised |-> TRUE,
                       requests |-> got.requests, attempts |-> got.requests]
                 ELSE [client |-> [got.client EXCEPT
                                      !.stats = Bump(@, "weather_queries", 1),
                                      !.weather_cache = Put(@, cache_key, answer)],
                       result |-> answer, raised |-> FALSE,
                       requests |-> got.requests, attempts |-> 0]

\* HerePlatformClient.fetch_traffic_status: the flow request, then the
\* incidents request
LiveFetchTrafficStatus(c, lat, lng, outcomes, now) ==
    LET cache_key == <<Round4(lat), Round4(lng), TrafficRadiusM>>
    IN  IF cache_key \in DOMAIN c.traffic_cache
        THEN [client |-> [c EXCEPT !.stats = Bump(@, "cache_hits", 1)],
              result |-> c.traffic_cache[cache_key], raised |-> FALSE,
              requests |-> 0, attempts |-> 0]
        ELSE LET flow == GetJson(c, <<"flow", Fixed6(lat), Fixed6(lng), TrafficRadiusM>>,
                                 outcomes[1], now)
                 incidents == GetJson(flow.client,
                                      <<"incidents", Fixed6(lat), Fixed6(lng),
                                        TrafficRadiusM>>,
                                      outcomes[2], now)
                 answer == [flow |-> flow.payload, incidents |-> incidents.payload,
                            area_radius_m |-> TrafficRadiusM]
             IN  IF flow.raised
                 THEN [client |-> flow.client, result |-> None, raised |-> TRUE,
                       requests |-> flow.requests, attempts |-> flow.requests]
                 ELSE IF incidents.raised
                 THEN [client |-> incidents.client, result |-> None,
                       raised |-> TRUE,
                       requests |-> flow.requests + incidents.requests,
                       attempts |-> incidents.requests]
                 ELSE [client |-> [incidents.client EXCEPT
                                      !.stats = Bump(@, "traffic_queries", 1),
                                      !.traffic_cache = Put(@, cache_key, answer)],
                       result |-> answer, raised |-> FALSE,
                       requests |-> flow.requests + incidents.requests, attempts |-> 0]

\* HerePlatformClient._fetch_route_summary: a payload without a usable route
\* ("empty") gives None, which is not cached
LiveFetchRouteSummary(c, origin, destination, departure, outcome, now) ==
    LET cache_key == <<Round5(origin.lat), Round5(origin.lng),
                       Round5(destination.lat), Round5(destination.lng), departure>>
    IN  IF cache_key \in DOMAIN c.routing_cache
        THEN [client |-> [c EXCEPT !.stats = Bump(@, "cache_hits", 1)],
              summary |-> c.routing_cache[cache_key], raised |-> FALSE,
              requests |-> 0, attempts |-> 0]
        ELSE LET got == GetJson(c, <<"routes", Fixed6(origin.lat), Fixed6(origin.lng),
                                     Fixed6(destination.lat),
                                     Fixed6(destination.lng), departure>>,
                                outcome, now)
                 counted == [got.client EXCEPT
                                !.stats = Bump(@, "routing_queries", 1)]
                 extracted == [duration_seconds |-> got.payload]
             IN  IF got.raised
                 THEN [client |-> got.client, summary |-> None, raised |-> TRUE,
                       requests |-> got.requests, attempts |-> got.requests]
                 ELSE IF got.payload.content = "empty"
                 THEN [client |-> counted, summary |-> None, raised |-> FALSE,
                       requests |-> got.requests, attempts |-> 0]
                 ELSE [client |-> [counted EXCEPT
                                      !.routing_cache = Put(@, cache_key, extracted)],
                       summary |-> extracted, raised |-> FALSE,
                       requests |-> got.requests, attempts |-> 0]

\* lines 618-641 of here_platform.py: the loop over the departures
RECURSIVE LiveForecastSlots(_, _, _, _, _, _, _, _)
LiveForecastSlots(c, origin, destination, departures, outcomes, now, slots, requests) ==
    IF departures = <<>>
    THEN [client |-> c, slots |-> slots, raised |-> FALSE, requests |-> requests,
          attempts |-> 0]
    ELSE LET got == LiveFetchRouteSummary(c, origin, destination, Head(departures),
                                          Head(outcomes), now)
         IN  IF got.raised
             THEN [client |-> got.client, slots |-> slots, raised |-> TRUE,
                   requests |-> requests + got.requests,
                   attempts |-> got.attempts]
             ELSE LiveForecastSlots(
                      got.client, origin, destination, Tail(departures),
                      Tail(outcomes), now,
                      IF got.summary = None THEN slots
                      ELSE Append(slots, [departure_utc |-> Head(departures),
                                          summary |-> got.summary]),
                      requests + got.requests)

\* HerePlatformClient.fetch_traffic_forecast
LiveFetchTrafficForecast(c, origin, destination, reference_time, outcomes, now) ==
    LET looped == LiveForecastSlots(c, origin, destination,
                                    Departures(ToUtcHour(reference_time)),
                                    outcomes, now, <<>>, 0)
    IN  [client |-> looped.client,
         result |-> IF looped.raised THEN None
                    ELSE [status |-> IF looped.slots = <<>> THEN "unknown"
                                     ELSE "forecasted",
                          worst_slots |-> looped.slots,
                          evaluated_slots |-> Len(looped.slots)],
         raised |-> looped.raised,
         requests |-> looped.requests,
         attempts |-> looped.attempts]

-----------------------------------------------------------------------------
(* The emulator.  The few hundredths of a metre between two coordinates    *)
(* that share a cache key do not show in temperature_c (one decimal) nor   *)
(* in base_duration_seconds (whole seconds); the results below depend on   *)
(* the coordinates through the seed material only.                         *)

EmulatorSeed == "here-emulator-v1"

\* HerePlatformEmulator._rng: the generator seeded from sha256(seed|parts)
Rng(parts) == [seed |-> EmulatorSeed, material |-> parts]

\* HerePlatformEmulator._simulate_weather_at
SimulateWeatherAt(lat, lng, hour) ==
    [drawn |-> Rng(<<"weather", Round3(lat), Round3(lng), hour>>), hour |-> hour]

\* what HerePlatformEmulator.fetch_weather computes on a cache miss
EmulatedWeather(lat, lng, reference_time) ==
    LET reference_hour == ToUtcHour(reference_time)
    IN  [realtime |-> [observed |-> SimulateWeatherAt(lat, lng, reference_hour),
                       observed_at_utc |-> reference_hour],
         forecast_24h |->
             [k \in 1..ForecastWindowHours |->
                 SimulateWeatherAt(lat, lng, reference_hour + (60 * k))]]

\* what HerePlatformEmulator.fetch_traffic_status computes on a cache miss
EmulatedTrafficStatus(lat, lng, now) ==
    [drawn |-> Rng(<<"traffic", Round3(lat), Round3(lng), TrafficRadiusM,
                     FiveMinBucket(now)>>),
     observed_at_utc |-> FiveMinBucket(now),
     area_radius_m |-> TrafficRadiusM]

\* what HerePlatformEmulator.fetch_traffic_forecast computes on a cache miss
EmulatedTrafficForecast(origin, destination, reference_time) ==
    LET departures == Departures(ToUtcHour(reference_time))
    IN  [status |-> "forecasted",
         worst_slots |->
             [k \in DOMAIN departures |->
                 [departure_utc |-> departures[k],
                  drawn |-> Rng(<<"routing", Round3(origin.lat), Round3(origin.lng),
                                  Round3(destination.lat), Round3(destination.lng),
                                  departures[k]>>)]],
         evaluated_slots |-> Len(departures)]

\* HerePlatformEmulator.fetch_weather
EmulatorFetchWeather(c, lat, lng, reference_time) ==
    LET cache_key == <<Round4(lat), Round4(lng), ToUtcHour(reference_time)>>
        answer == EmulatedWeather(lat, lng, reference_time)
    IN  IF cache_key \in DOMAIN c.weather_cache
        THEN [client |-> [c EXCEPT !.stats = Bump(@, "cache_hits", 1)],
              result |-> c.weather_cache[cache_key], raised |-> FALSE,
              requests |-> 0, attempts |-> 0]
        ELSE [client |-> [c EXCEPT
                             !.stats = Bump(Bump(@, "weather_queries", 1),
                                            "http_requests", 1),
                             !.weather_cache = Put(@, cache_key, answer)],
              result |-> answer, raised |-> FALSE, requests |-> 1, attempts |-> 0]

\* HerePlatformEmulator.fetch_traffic_status
EmulatorFetchTrafficStatus(c, lat, lng, now) ==
    LET cache_key == <<Round4(lat), Round4(lng), TrafficRadiusM, FiveMinBucket(now)>>
        answer == EmulatedTrafficStatus(lat, lng, now)
    IN  IF cache_key \in DOMAIN c.traffic_cache
        THEN [client |-> [c EXCEPT !.stats = Bump(@, "cache_hits", 1)],
              result |-> c.traffic_cache[cache_key], raised |-> FALSE,
              requests |-> 0, attempts |-> 0]
        ELSE [client |-> [c EXCEPT
                             !.stats = Bump(Bump(@, "traffic_queries", 1),
                                            "http_requests", 2),
                             !.traffic_cache = Put(@, cache_key, answer)],
              result |-> answer, raised |-> FALSE, requests |-> 2, attempts |-> 0]

\* HerePlatformEmulator.fetch_traffic_forecast
EmulatorFetchTrafficForecast(c, origin, destination, reference_time) ==
    LET cache_key == <<Round5(origin.lat), Round5(origin.lng),
                       Round5(destination.lat), Round5(destination.lng),
                       ToUtcHour(reference_time), ForecastStepMin>>
        answer == EmulatedTrafficForecast(origin, destination, reference_time)
    IN  IF cache_key \in DOMAIN c.routing_cache
        THEN [client |-> [c EXCEPT !.stats = Bump(@, "cache_hits", 1)],
              result |-> c.routing_cache[cache_key], raised |-> FALSE,
              requests |-> 0, attempts |-> 0]
        ELSE [client |-> [c EXCEPT
                             !.stats = Bump(Bump(@, "routing_queries", 1),
                                            "http_requests", 1),
                             !.routing_cache = Put(@, cache_key, answer)],
              result |-> answer, raised |-> FALSE, requests |-> 1, attempts |-> 0]

-----------------------------------------------------------------------------
(* The calls a client serves *)

\* 40.0004990 and 40.0005010 are equal at 4 and 5 decimals and differ at 3
\* and 6; 40.0000499 and 40.0000501 are equal at 6 decimals and differ at 4
Latitudes == {400004990, 400005010, 400000499, 400000501}
Longitude == 0 - 30000000
Destination == [lat |-> 410000000, lng |-> Longitude]

\* the reference time of a call: none given (now) or the next hour
ReferenceTimes(now) == {now, 60}

\* how the requests of one call end at the HERE service
GetOutcomes == {"ok", "fails"}
RouteOutcomes == {"ok", "empty", "fails"}

\* the client's new state and the entry of the call in the history:
\* `canonical` holds the coordinates at 6 decimals, `bucket` the hour of the
\* reference time (the 5-minute bucket of now for fetch_traffic_status),
\* `requests` the requests made, `attempts` those of the GET that raised
Answered(method, args, canonical, bucket, out) ==
    /\ http_cache' = out.client.http_cache
    /\ weather_cache' = out.client.weather_cache
    /\ traffic_cache' = out.client.traffic_cache
    /\ routing_cache' = out.client.routing_cache
    /\ stats' = out.client.stats
    /\ provider_log' = Append(provider_log,
           [method |-> method, args |-> args, canonical |-> canonical,
            bucket |-> bucket, result |-> out.result,
            raised |-> out.raised, requests |-> out.requests,
            attempts |-> out.attempts,
            http_before |-> stats.http_requests,
            http_after |-> out.client.stats.http_requests])
    /\ UNCHANGED <<client_kind, wall_clock>>
    /\ UNCHANGED outsideProvider

ProviderInit ==
    /\ client_kind \in {"live", "emulator"}
    /\ http_cache = <<>>
    /\ weather_cache = <<>>
    /\ traffic_cache = <<>>
    /\ routing_cache = <<>>
    /\ stats = NewStats
    /\ wall_clock = 0
    /\ provider_log = <<>>
    /\ SolveIdle
    /\ EnrichIdle
    /\ ResolverIdle
    /\ BuilderIdle
    /\ ScorerIdle
    /\ LayerIdle
    /\ ExtractIdle
    /\ LimitIdle
    /\ HandlerIdle
    /\ GeometryIdle
    /\ MergeIdle

\* time passes between two calls, one traffic bucket at a time
ClockTick ==
    /\ wall_clock + BucketMinutes <= MaxClock
    /\ wall_clock' = wall_clock + BucketMinutes
    /\ UNCHANGED <<client_kind, http_cache, weather_cache, traffic_cache,
                   routing_cache, stats, provider_log>>
    /\ UNCHANGED outsideProvider

\* one call of fetch_weather
FetchWeather ==
    /\ Len(provider_log) < MaxProviderCalls
    /\ \E lat \in Latitudes, reference_time \in ReferenceTimes(wall_clock) :
         \E outcome \in (IF client_kind = "live" THEN GetOutcomes ELSE {"ok"}) :
           Answered("fetch_weather",
                    <<lat, Longitude, reference_time>>,
                    <<Fixed6(lat), Fixed6(Longitude)>>,
                    ToUtcHour(reference_time),
                    IF client_kind = "live"
                    THEN LiveFetchWeather(Client, lat, Longitude, reference_time,
                                          outcome, wall_clock)
                    ELSE EmulatorFetchWeather(Client, lat, Longitude, reference_time))

\* one call of fetch_traffic_status
FetchTrafficStatus ==
    /\ Len(provider_log) < MaxProviderCalls
    /\ \E lat \in Latitudes :
         \E outcomes \in (IF client_kind = "live"
                          THEN GetOutcomes \X GetOutcomes ELSE {<<"ok", "ok">>}) :
           Answered("fetch_traffic_status",
                    <<lat, Longitude>>,
                    <<Fixed6(lat), Fixed6(Longitude)>>,
                    FiveMinBucket(wall_clock),
                    IF client_kind = "live"
                    THEN LiveFetchTrafficStatus(Client, lat, Longitude, outcomes,
                                                wall_clock)
                    ELSE EmulatorFetchTrafficStatus(Client, lat, Longitude,
                                                    wall_clock))

\* one call of fetch_traffic_forecast
FetchTrafficForecast ==
    /\ Len(provider_log) < MaxProviderCalls
    /\ \E lat \in Latitudes, reference_time \in ReferenceTimes(wall_clock) :
         LET origin == [lat |-> lat, lng |-> Longitude]
             slots == Len(Departures(ToUtcHour(reference_time)))
         IN  \E outcomes \in (IF client_kind = "live"
                              THEN [1..slots -> RouteOutcomes]
                              ELSE {[k \in 1..slots |-> "ok"]}) :
               Answered("fetch_traffic_forecast",
                        <<origin, Destination, reference_time>>,
                        <<Fixed6(lat), Fixed6(Longitude), Fixed6(Destination.lat),
                          Fixed6(Destination.lng)>>,
                        ToUtcHour(reference_time),
                        IF client_kind = "live"
                        THEN LiveFetchTrafficForecast(Client, origin, Destination,
                                                      reference_time, outcomes,
                                                      wall_clock)
                        ELSE EmulatorFetchTrafficForecast(Client, origin,
                                                          Destination,
                                                          reference_time))

ProviderNext ==
    \/ ClockTick
    \/ FetchWeather
    \/ FetchTrafficStatus
    \/ FetchTrafficForecast

SpecProvider == ProviderInit /\ [][ProviderNext]_vars

-----------------------------------------------------------------------------
(* Part V.  The municipality resolver of semantic_layer.py: one lookup     *)
(* (address book, last_request_ts, counters) serves the points of phase 1  *)
(* (the coordinates of the problem) and of phase 2 (the samples of the     *)
(* segments), one call of _resolve_municipality_point after the other.     *)
(* Times are whole units; min_interval_ms is given in the same unit.       *)

\* bounds of the resolver model
MaxResolves == 3
MaxMonotonic == 3

\* min_interval_ms as the caller gives it
MinIntervals == {0, 2}
\* how long the reverse-geocode request takes
RequestDurations == {1, 2}
\* how much longer than asked time.sleep may sleep
Oversleeps == {0, 1}
\* _coordinate_key of the points
CoordinateKeys == {"40.000000,-3.000000", "41.000000,-3.000000"}
\* what the reverse geocoder answers
GeocodeOutcomes == {"resolved", "unknown", "fails"}

\* lookup["last_request_ts"] = None
NoRequestYet == 0 - 1

\* _append_unique
AppendUnique(items, value) ==
    IF value \in Range(items) THEN items ELSE Append(items, value)

\* _merge_point_metadata, on the source tags
MergePointMetadata(target, point) ==
    [target EXCEPT !.source_tags = AppendUnique(@, point.source_tag)]

\* _reverse_geocode_stop_address / _empty_municipality_entry: the row of the book
MunicipalityEntry(key, outcome) ==
    [status |-> IF outcome = "fails" THEN "error" ELSE outcome,
     key |-> key,
     source_tags |-> <<>>]

\* _build_municipality_lookup
BuildMunicipalityLookup(initial_book, min_interval_ms) ==
    [book |-> initial_book,
     min_interval_ms |-> IF min_interval_ms > 0 THEN min_interval_ms ELSE 0,
     last_request_ts |-> NoRequestYet,
     http_requests |-> 0,
     cache_hits |-> 0]

\* the address book a lookup starts from: initial_book={} (line 2027)
InitialBooks == {EmptyDict}

\* lines 743-748 of semantic_layer.py, without the sleep
SleepBeforeRequest_IgnoresInterval(lk, now) ==
    0

\* lines 743-748 of semantic_layer.py: how long the resolver has to sleep
\* before the request
SleepBeforeRequest(lk, now) ==
    IF lk.last_request_ts # NoRequestYet /\ lk.min_interval_ms > 0
    THEN LET elapsed_ms == now - lk.last_request_ts
         IN  IF elapsed_ms < lk.min_interval_ms
             THEN lk.min_interval_ms - elapsed_ms
             ELSE 0
    ELSE 0

\* _resolve_municipality_point that keeps no row of a failed request
ResolveMunicipalityPoint_ForgetsFailure(lk, point, errors, context_label, record_unknown, outcome, duration, overslept, now) ==
    IF point.key \in DOMAIN lk.book
    THEN LET cached == MergePointMetadata(lk.book[point.key], point)
         IN  [lookup |-> [lk EXCEPT !.cache_hits = @ + 1,
                                    !.book = Put(@, point.key, cached)],
              row |-> cached, errors |-> errors, cached |-> TRUE,
              slept |-> 0, sent_at |-> NoRequestYet, now |-> now]
    ELSE LET asked == SleepBeforeRequest(lk, now)
             slept == IF asked > 0 THEN asked + overslept ELSE 0
             sent_at == now + slept
             done_at == sent_at + duration
             row == MergePointMetadata(MunicipalityEntry(point.key, outcome), point)
         IN  [lookup |-> [lk EXCEPT !.http_requests = @ + 1,
                                    !.last_request_ts = done_at,
                                    !.book = IF outcome = "fails" THEN @
                                             ELSE Put(@, point.key, row)],
              row |-> row,
              errors |-> IF outcome = "fails"
                         THEN Append(errors, <<"failed", context_label, point.key>>)
                         ELSE IF record_unknown /\ outcome # "resolved"
                         THEN Append(errors, <<"unresolved", context_label, point.key>>)
                         ELSE errors,
              cached |-> FALSE, slept |-> slept, sent_at |-> sent_at,
              now |-> done_at]

\* _resolve_municipality_point: the lookup, the errors and the clock after
\* the call, the row it returns and when the request was sent
ResolveMunicipalityPoint(lk, point, errors, context_label, record_unknown, outcome, duration, overslept, now) ==
    IF point.key \in DOMAIN lk.book
    THEN LET cached == MergePointMetadata(lk.book[point.key], point)
         IN  [lookup |-> [lk EXCEPT !.cache_hits = @ + 1,
                                    !.book = Put(@, point.key, cached)],
              row |-> cached, errors |-> errors, cached |-> TRUE,
              slept |-> 0, sent_at |-> NoRequestYet, now |-> now]
    ELSE LET asked == SleepBeforeRequest(lk, now)
             slept == IF asked > 0 THEN asked + overslept ELSE 0
             sent_at == now + slept
             done_at == sent_at + duration
             row == MergePointMetadata(MunicipalityEntry(point.key, outcome), point)
             place == <<context_label, point.key>>
         IN  [lookup |-> [lk EXCEPT !.http_requests = @ + 1,
                                    !.last_request_ts = done_at,
                                    !.book = Put(@, point.key, row)],
              row |-> row,
              errors |-> IF outcome = "fails"
                         THEN Append(errors, <<"failed">> \o place)
                         ELSE IF record_unknown /\ outcome # "resolved"
                         THEN Append(errors, <<"unresolved">> \o place)
                         ELSE errors,
              cached |-> FALSE, slept |-> slept, sent_at |-> sent_at,
              now |-> done_at]

\* the phase the lookup is in: 1 until a sample of phase 2 was resolved
CurrentPhase ==
    IF geocode_log = <<>> THEN 1 ELSE geocode_log[Len(geocode_log)].phase

ResolverInit ==
    /\ \E initial_book \in InitialBooks, min_interval_ms \in MinIntervals :
          lookup = BuildMunicipalityLookup(initial_book, min_interval_ms)
    /\ monotonic = 0
    /\ geocode_errors = <<>>
    /\ geocode_log = <<>>
    /\ SolveIdle
    /\ EnrichIdle
    /\ ProviderIdle
    /\ BuilderIdle
    /\ ScorerIdle
    /\ LayerIdle
    /\ ExtractIdle
    /\ LimitIdle
    /\ HandlerIdle
    /\ GeometryIdle
    /\ MergeIdle

\* the work between two calls of the resolver takes time
Elapse ==
    /\ monotonic < MaxMonotonic
    /\ monotonic' = monotonic + 1
    /\ UNCHANGED <<lookup, geocode_errors, geocode_log>>
    /\ UNCHANGED outsideResolver

\* one call of _resolve_municipality_point, from phase 1 (line 2087) or from
\* phase 2 (line 892)
Resolve ==
    /\ Len(geocode_log) < MaxResolves
    /\ \E key \in CoordinateKeys, phase \in {1, 2} :
        \E outcome \in (IF key \in DOMAIN lookup.book THEN {"resolved"}
                        ELSE GeocodeOutcomes),
           duration \in (IF key \in DOMAIN lookup.book THEN {1}
                         ELSE RequestDurations),
           overslept \in (IF key \in DOMAIN lookup.book
                             \/ SleepBeforeRequest(lookup, monotonic) = 0
                          THEN {0} ELSE Oversleeps) :
          /\ phase >= CurrentPhase
          /\ LET point == [key |-> key,
                           source_tag |-> IF phase = 1 THEN "customer_input"
                                          ELSE "segment_sample"]
                 out == ResolveMunicipalityPoint(
                            lookup, point, geocode_errors,
                            IF phase = 1 THEN "municipality reverse geocode phase1"
                            ELSE "municipality reverse geocode sample",
                            phase = 1, outcome, duration, overslept, monotonic)
             IN  /\ lookup' = out.lookup
                 /\ geocode_errors' = out.errors
                 /\ monotonic' = out.now
                 /\ geocode_log' = Append(geocode_log,
                        [key |-> key, phase |-> phase, cached |-> out.cached,
                         status |-> out.row.status, called_at |-> monotonic,
                         slept |-> out.slept, sent_at |-> out.sent_at,
                         returned_at |-> out.now,
                         http_before |-> lookup.http_requests,
                         http_after |-> out.lookup.http_requests])
    /\ UNCHANGED outsideResolver

ResolverNext ==
    \/ Elapse
    \/ Resolve

SpecResolver == ResolverInit /\ [][ResolverNext]_vars

-----------------------------------------------------------------------------
(* Part VI.  The segments and the semantic locations of a route.  The      *)
(* stops lie on one meridian; a position is the distance north of the      *)
(* first position in ten-thousandths of a kilometre, so that the haversine *)
(* distance of two stops is the difference of their positions.  Distances  *)
(* are ten-thousandths of a kilometre, minutes ten-thousandths of a minute.*)
(* No input below lies half way between two rounded values.                *)

\* bound of the segment builder
MaxStops == 3

\* where the stops may lie
StopPositions == <<0, 4, 12344, 35798>>
\* avg_speed_kmh
AvgSpeeds == {0, 30, 60}
\* departure_time_utc = None
NoTime == 0 - 1
\* departure_time_utc, in ten-thousandths of a minute
DepartureTimes == {NoTime, 0}

\* the stop at a position
StopAt(k) == [id |-> k, lat |-> StopPositions[k], lng |-> 0]

\* the lists of at most n stops
StopListsUpTo(n) ==
    UNION {{[i \in 1..len |-> StopAt(choice[i])] :
                choice \in [1..len -> DOMAIN StopPositions]} : len \in 0..n}

\* _haversine_km, for two points of one meridian
SegmentHaversineKm(a, b) ==
    IF a.lat >= b.lat THEN a.lat - b.lat ELSE b.lat - a.lat

\* round(x, 3) of a distance
RoundKm3(x) == Round(x, 10)
\* round(x, 1) of a number of minutes
RoundMin1(x) == Round(x, 1000)

\* the loop of _build_route_segments from stops[index] on
RECURSIVE RouteSegmentsFrom(_, _, _, _, _, _)
RouteSegmentsFrom(stops, avg_speed_kmh, departure_time_utc, index, elapsed_min, cumulative_km) ==
    IF index > Len(stops) - 1
    THEN <<>>
    ELSE LET start == stops[index]
             end == stops[index + 1]
             segment_distance_km == SegmentHaversineKm(start, end)
             cumulative == cumulative_km + segment_distance_km
             elapsed == IF avg_speed_kmh > 0
                        THEN elapsed_min
                             + ((segment_distance_km * 60) \div avg_speed_kmh)
                        ELSE elapsed_min
         IN  <<[segment_index |-> index - 1,
                from_stop_id |-> start.id,
                to_stop_id |-> end.id,
                distance_km |-> RoundKm3(segment_distance_km),
                cumulative_distance_km |-> RoundKm3(cumulative),
                eta_min_from_departure |-> RoundMin1(elapsed),
                eta_utc |-> IF departure_time_utc = NoTime THEN NoTime
                            ELSE departure_time_utc + elapsed,
                midpoint |-> [lat |-> (start.lat + end.lat) \div 2,
                              lng |-> (start.lng + end.lng) \div 2],
                start |-> [lat |-> start.lat, lng |-> start.lng],
                end |-> [lat |-> end.lat, lng |-> end.lng]]>>
             \o RouteSegmentsFrom(stops, avg_speed_kmh, departure_time_utc,
                                  index + 1, elapsed, cumulative)

\* _build_route_segments
BuildRouteSegments(stops, avg_speed_kmh, departure_time_utc) ==
    IF Len(stops) < 2 THEN <<>>
    ELSE RouteSegmentsFrom(stops, avg_speed_kmh, departure_time_utc, 1, 0, 0)

BuilderInit ==
    /\ builder_pc = "called"
    /\ builder_input \in [stops : StopListsUpTo(MaxStops),
                          avg_speed_kmh : AvgSpeeds,
                          departure_time_utc : DepartureTimes]
    /\ builder_segments = <<>>
    /\ SolveIdle
    /\ EnrichIdle
    /\ ProviderIdle
    /\ ResolverIdle
    /\ ScorerIdle
    /\ LayerIdle
    /\ ExtractIdle
    /\ LimitIdle
    /\ HandlerIdle
    /\ GeometryIdle
    /\ MergeIdle

\* the call of _build_route_segments
BuilderReturn ==
    /\ builder_pc = "called"
    /\ builder_pc' = "returned"
    /\ builder_segments' = BuildRouteSegments(builder_input.stops,
                                              builder_input.avg_speed_kmh,
                                              builder_input.departure_time_utc)
    /\ UNCHANGED builder_input
    /\ UNCHANGED outsideBuilder

SpecSegments == BuilderInit /\ [][BuilderReturn]_vars

-----------------------------------------------------------------------------
(* The semantic locations of a route.  A location lies `lng` ten-          *)
(* thousandths of a kilometre east of the meridian of the stops and `lat`  *)
(* north of the first position: the coordinates are those of the local     *)
(* frame of _lat_lng_to_xy_km.  A relevance score is given in ten-         *)
(* thousandths.                                                            *)

\* bound of the scorer: the length of candidate_locations
MaxCandidates == 3

\* the candidate locations a caller may send
CandidatePool ==
    {[id |-> 10, lat |-> 100, lng |-> 6, semantic_category |-> "fuel"],
     [id |-> 2, lat |-> 100, lng |-> 12, semantic_category |-> "fuel"],
     [id |-> 3, lat |-> 200, lng |-> 4, semantic_category |-> "other"],
     [id |-> 4, lat |-> 300, lng |-> 2000, semantic_category |-> "fuel"],
     [id |-> 5, lat |-> 70400, lng |-> 0, semantic_category |-> "other"]}

\* the lists of at most n distinct candidates
CandidateListsUpTo(n) ==
    UNION {{list \in [1..len -> CandidatePool] :
                \A a, b \in 1..len : a # b => list[a] # list[b]} : len \in 0..n}

\* the routes the locations are scored for
ScoredRoutes ==
    LET depot == [id |-> 0, lat |-> 0, lng |-> 0]
        customer == [id |-> 1, lat |-> 400, lng |-> 0]
    IN  {[stops |-> <<depot>>],
         [stops |-> <<depot, customer>>],
         [stops |-> <<depot, customer, depot>>]}
\* radius_km, at least 0.1 km
CorridorRadii == {1000, 65000}
\* semantic_categories
CategorySets == {{}, {"fuel"}}
\* top_k, at least 1
TopKs == {1, 2}

AbsDiff(a, b) == IF a >= b THEN a - b ELSE b - a

\* math.hypot, to the whole unit below
Hypot(dx, dy) ==
    IF dx = 0 THEN dy
    ELSE IF dy = 0 THEN dx
    ELSE CHOOSE r \in 0..(dx + dy) :
             r * r <= (dx * dx) + (dy * dy) /\ (dx * dx) + (dy * dy) < (r + 1) * (r + 1)

\* _point_to_segment_distance_km
PointToSegmentDistanceKm(point, start, end) ==
    LET vx == end.lng - start.lng
        vy == end.lat - start.lat
        seg_len_sq == (vx * vx) + (vy * vy)
        dot == ((point.lng - start.lng) * vx) + ((point.lat - start.lat) * vy)
        clamped == IF dot < 0 THEN 0 ELSE IF dot > seg_len_sq THEN seg_len_sq ELSE dot
        closest_x == start.lng + ((clamped * vx) \div seg_len_sq)
        closest_y == start.lat + ((clamped * vy) \div seg_len_sq)
    IN  IF seg_len_sq = 0
        THEN Hypot(AbsDiff(point.lng, start.lng), AbsDiff(point.lat, start.lat))
        ELSE Hypot(AbsDiff(point.lng, closest_x), AbsDiff(point.lat, closest_y))

\* the loop of _distance_to_route_km from segment `index` on
RECURSIVE NearestSegmentFrom(_, _, _, _)
NearestSegmentFrom(location, stops, index, best) ==
    IF index > Len(stops) - 1 THEN best
    ELSE LET distance == PointToSegmentDistanceKm(location, stops[index],
                                                  stops[index + 1])
         IN  NearestSegmentFrom(
                 location, stops, index + 1,
                 IF distance < best.distance
                 THEN [distance |-> distance, segment_index |-> index - 1]
                 ELSE best)

\* _distance_to_route_km
DistanceToRouteKm(location, stops) ==
    NearestSegmentFrom(location, stops, 1,
                       [distance |-> Inf, segment_index |-> NoTime])

\* a / b rounded to the nearest whole number
RoundDiv(a, b) == ((2 * a) + b) \div (2 * b)

\* round(_score_location(...), 4)
ScoreLocation(distance_km, radius_km, category, semantic_categories) ==
    LET proximity == IF distance_km >= radius_km THEN 0
                     ELSE radius_km - distance_km
        semantic_score == IF semantic_categories = {} THEN 3500
                          ELSE IF category \in semantic_categories THEN 3500
                          ELSE 875
    IN  RoundDiv(6500 * proximity, radius_km) + semantic_score

\* line 1836, with the test of the radius left out
WithinCorridor_Always(distance_km, radius_km) ==
    TRUE

\* line 1836 of semantic_layer.py: the candidate is kept
WithinCorridor(distance_km, radius_km) ==
    ~(distance_km = Inf \/ distance_km > radius_km)

\* str(id) of a whole number, as the list of its digits
RECURSIVE StrOfId(_)
StrOfId(id) == IF id < 10 THEN <<id>> ELSE StrOfId(id \div 10) \o <<id % 10>>

\* s < t for two strings
RECURSIVE StrLess(_, _)
StrLess(s, t) ==
    IF t = <<>> THEN FALSE
    ELSE IF s = <<>> THEN TRUE
    ELSE IF Head(s) # Head(t) THEN Head(s) < Head(t)
    ELSE StrLess(Tail(s), Tail(t))

\* the sort key of line 1857 puts item before other
SortsBefore(item, other) ==
    \/ item.relevance_score > other.relevance_score
    \/ /\ item.relevance_score = other.relevance_score
       /\ item.distance_to_route_km < other.distance_to_route_km
    \/ /\ item.relevance_score = other.relevance_score
       /\ item.distance_to_route_km = other.distance_to_route_km
       /\ StrLess(StrOfId(item.id), StrOfId(other.id))

\* list.sort: stable, an item goes before the first one it sorts before
RECURSIVE InsertSorted(_, _)
InsertSorted(sorted, item) ==
    IF sorted = <<>> THEN <<item>>
    ELSE IF SortsBefore(item, Head(sorted)) THEN <<item>> \o sorted
    ELSE <<Head(sorted)>> \o InsertSorted(Tail(sorted), item)

RECURSIVE SortScored(_)
SortScored(scored) ==
    IF scored = <<>> THEN <<>>
    ELSE InsertSorted(SortScored(SubSeq(scored, 1, Len(scored) - 1)),
                      scored[Len(scored)])

\* the entry of one candidate in `scored`
ScoredLocation(location, stops, radius_km, semantic_categories) ==
    LET nearest == DistanceToRouteKm(location, stops)
    IN  [id |-> location.id,
         lat |-> location.lat,
         lng |-> location.lng,
         semantic_category |-> location.semantic_category,
         distance_to_route_km |-> RoundKm3(nearest.distance),
         estimated_detour_km |-> RoundKm3(nearest.distance * 2),
         nearest_segment_index |-> nearest.segment_index,
         relevance_score |-> ScoreLocation(nearest.distance, radius_km,
                                           location.semantic_category,
                                           semantic_categories)]

\* the loop of lines 1834-1854
RECURSIVE ScoredCandidates(_, _, _, _)
ScoredCandidates(candidate_locations, stops, radius_km, semantic_categories) ==
    IF candidate_locations = <<>> THEN <<>>
    ELSE LET location == Head(candidate_locations)
             rest == ScoredCandidates(Tail(candidate_locations), stops, radius_km,
                                      semantic_categories)
         IN  IF WithinCorridor(DistanceToRouteKm(location, stops).distance,
                               radius_km)
             THEN <<ScoredLocation(location, stops, radius_km,
                                   semantic_categories)>> \o rest
             ELSE rest

\* _semantic_locations_for_route
SemanticLocationsForRoute(route, candidate_locations, radius_km, semantic_categories, top_k) ==
    IF Len(route.stops) < 2 \/ candidate_locations = <<>>
    THEN <<>>
    ELSE Take(SortScored(ScoredCandidates(candidate_locations, route.stops,
                                          radius_km, semantic_categories)),
              top_k)

ScorerInit ==
    /\ scorer_pc = "called"
    /\ scorer_input \in [route : ScoredRoutes,
                         candidate_locations : CandidateListsUpTo(MaxCandidates),
                         radius_km : CorridorRadii,
                         semantic_categories : CategorySets,
                         top_k : TopKs]
    /\ scorer_locations = <<>>
    /\ SolveIdle
    /\ EnrichIdle
    /\ ProviderIdle
    /\ ResolverIdle
    /\ BuilderIdle
    /\ LayerIdle
    /\ ExtractIdle
    /\ LimitIdle
    /\ HandlerIdle
    /\ GeometryIdle
    /\ MergeIdle

\* the call of _semantic_locations_for_route
ScorerReturn ==
    /\ scorer_pc = "called"
    /\ scorer_pc' = "returned"
    /\ scorer_locations' = SemanticLocationsForRoute(
                               scorer_input.route,
                               scorer_input.candidate_locations,
                               scorer_input.radius_km,
                               scorer_input.semantic_categories,
                               scorer_input.top_k)
    /\ UNCHANGED scorer_input
    /\ UNCHANGED outsideScorer

SpecLocations == ScorerInit /\ [][ScorerReturn]_vars

-----------------------------------------------------------------------------
(* Part VII.  The loop of build_semantic_layer over the routes and their   *)
(* segments (lines 2135-2359) and its return.  No observation is supplied  *)
(* by the caller.  A provider call ends "ok", with the RuntimeError of     *)
(* _get_json, or with the AttributeError of a payload whose rows are not   *)
(* objects (here_platform.py line 519: first_flow.get; lines 586 and 589:  *)
(* payload.get, routes[0].get); fetch_weather tests the type of every row  *)
(* it reads.  What the reverse                                             *)
(* geocoder resolves for the samples of a segment is a list of rows: the   *)
(* name of the municipality, its province, the capital of the province.    *)

\* bound of the loop: the segments of all routes of a result
MaxLayerSegments == 3

\* the stops of the routes
DepotStop == [id |-> 0, lat |-> 0, lng |-> 0]
CustomerStop == [id |-> 1, lat |-> 400, lng |-> 0]
FarStop == [id |-> 2, lat |-> 1200, lng |-> 0]

\* a route of one segment and a route of two
LayerRoutes ==
    {[vehicle |-> 1, stops |-> <<DepotStop, CustomerStop>>],
     [vehicle |-> 2, stops |-> <<DepotStop, FarStop, DepotStop>>]}

RECURSIVE SegmentCount(_)
SegmentCount(route_list) ==
    IF route_list = <<>> THEN 0
    ELSE (Len(Head(route_list).stops) - 1) + SegmentCount(Tail(route_list))

\* vrp_result["routes"]: lists of routes of at most n segments in all
RouteListsUpTo(n) ==
    UNION {{route_list \in [1..len -> LayerRoutes] : SegmentCount(route_list) <= n} :
              len \in 1..n}

\* here_client: None, HerePlatformClient or HerePlatformEmulator
HereClients == {"none", "here", "emulator"}

\* how the calls of one segment end: fetch_weather, fetch_traffic_status,
\* fetch_traffic_forecast; no call is made after one that raised anything
\* but a RuntimeError; at most one call of a segment raises
CallOutcomes(here_client) ==
    IF here_client = "none" THEN {<<"not_called", "not_called", "not_called">>}
    ELSE IF here_client = "emulator" THEN {<<"ok", "ok", "ok">>}
    ELSE {outcomes \in [1..3 -> {"ok", "RuntimeError", "AttributeError",
                                 "not_called"}] :
             /\ outcomes[1] \in {"ok", "RuntimeError"}
             /\ \A k \in 2..3 :
                   outcomes[k] = "not_called"
                       <=> \E earlier \in 1..(k - 1) :
                              outcomes[earlier] \in {"AttributeError", "not_called"}
             /\ Cardinality({k \in 1..3 : outcomes[k] \in {"RuntimeError",
                                                          "AttributeError"}}) <= 1}

\* what the samples of a segment resolve to
SampleRuns ==
    {<<[name |-> "Getafe", province |-> "Madrid", capital |-> "Madrid"],
       [name |-> "Madrid", province |-> "Madrid", capital |-> "Madrid"]>>,
     <<[name |-> "MADRID", province |-> "MADRID", capital |-> "madrid"],
       [name |-> "madrid", province |-> "Madrid", capital |-> ""],
       [name |-> "Toledo", province |-> "Toledo", capital |-> "Toledo"]>>}

\* str.casefold
Casefold(text) ==
    CASE text \in {"Madrid", "MADRID", "madrid"} -> "madrid"
      [] text = "Toledo" -> "toledo"
      [] text = "Getafe" -> "getafe"
      [] OTHER -> text

\* _append_unique_in_order, with the comparison with the last item left out
AppendUniqueInOrder_KeepsAll(items, value) ==
    IF value = "" THEN items ELSE Append(items, value)

\* _append_unique_in_order
AppendUniqueInOrder(items, value) ==
    IF value = "" THEN items
    ELSE IF items # <<>> /\ Casefold(items[Len(items)]) = Casefold(value) THEN items
    ELSE Append(items, value)

\* for value in values: _append_unique_in_order(items, value)
RECURSIVE AppendAllUniqueInOrder(_, _)
AppendAllUniqueInOrder(items, values) ==
    IF values = <<>> THEN items
    ELSE AppendAllUniqueInOrder(AppendUniqueInOrder(items, Head(values)),
                                Tail(values))

\* lines 879-927: the trace keeps a sample whose municipality differs from
\* that of the sample kept before it
RECURSIVE MunicipalityTraceFrom(_, _, _)
MunicipalityTraceFrom(resolved, previous_name_key, sample_index) ==
    IF resolved = <<>> THEN <<>>
    ELSE LET row == Head(resolved)
         IN  IF row.name = "" \/ Casefold(row.name) = previous_name_key
             THEN MunicipalityTraceFrom(Tail(resolved), previous_name_key,
                                        sample_index + 1)
             ELSE <<[sample_index |-> sample_index,
                     municipality |-> [name |-> row.name],
                     province |-> row.province,
                     capital |-> row.capital]>>
                  \o MunicipalityTraceFrom(Tail(resolved), Casefold(row.name),
                                           sample_index + 1)

\* _build_municipality_trace_from_segment_samples
BuildMunicipalityTrace(resolved) == MunicipalityTraceFrom(resolved, "", 0)

\* _build_segment_admin_vectors
RECURSIVE SegmentAdminVectorsFrom(_, _, _)
SegmentAdminVectorsFrom(municipality_trace, vectors, capital_lookup_enabled) ==
    IF municipality_trace = <<>> THEN vectors
    ELSE LET row == Head(municipality_trace)
         IN  SegmentAdminVectorsFrom(
                 Tail(municipality_trace),
                 [municipality |-> AppendUniqueInOrder(vectors.municipality,
                                                       row.municipality.name),
                  province |-> AppendUniqueInOrder(vectors.province, row.province),
                  province_capital |->
                      IF capital_lookup_enabled /\ row.province # ""
                      THEN AppendUniqueInOrder(vectors.province_capital,
                                               row.capital)
                      ELSE vectors.province_capital],
                 capital_lookup_enabled)

NoVectors == [municipality |-> <<>>, province |-> <<>>, province_capital |-> <<>>]

BuildSegmentAdminVectors(municipality_trace, capital_lookup_enabled) ==
    SegmentAdminVectorsFrom(municipality_trace, NoVectors, capital_lookup_enabled)

\* _format_weather_context(None, ...) with _unknown_weather_forecast
UnknownWeatherContext ==
    [status |-> "unknown", source |-> "not_provided",
     forecast_24h |-> [status |-> "unknown", source |-> "not_provided"]]

\* _format_traffic_context(None, ...) with _unknown_traffic_forecast
UnknownTrafficContext ==
    [status |-> "unknown", source |-> "not_provided",
     forecast_24h |-> [status |-> "unknown", source |-> "not_provided"]]

\* lines 2184-2203: the weather of the segment after fetch_weather
WeatherAfterFetch(weather_context, outcome) ==
    CASE outcome = "ok" ->
             [status |-> "observed", source |-> "here_weather_v3",
              forecast_24h |-> [status |-> "forecasted",
                                source |-> "here_weather_v3"]]
      [] outcome = "RuntimeError" ->
             Put(weather_context, "here_error", "HERE request failed")
      [] OTHER -> weather_context

\* lines 2205-2218: the traffic of the segment after fetch_traffic_status
TrafficAfterStatus(traffic_context, outcome) ==
    CASE outcome = "ok" ->
             [status |-> "observed", source |-> "here_traffic_v7",
              forecast_24h |-> traffic_context.forecast_24h]
      [] outcome = "RuntimeError" ->
             Put(traffic_context, "here_error", "HERE request failed")
      [] OTHER -> traffic_context

\* lines 2220-2235: the traffic of the segment after fetch_traffic_forecast
TrafficAfterForecast(traffic_context, outcome) ==
    CASE outcome = "ok" ->
             [traffic_context EXCEPT
                 !.forecast_24h = [status |-> "forecasted",
                                   source |-> "here_routing_v8"]]
      [] outcome = "RuntimeError" ->
             [traffic_context EXCEPT
                 !.forecast_24h = [status |-> "unknown",
                                   source |-> "here_routing_v8",
                                   error |-> "HERE request failed"]]
      [] OTHER -> traffic_context

\* the entries here_errors gets from the calls of one segment
HereErrorsOf(outcomes) ==
    SelectSeq([k \in 1..3 |-> IF outcomes[k] = "RuntimeError"
                              THEN "HERE request failed" ELSE ""],
              LAMBDA entry : entry # "")

\* an exception the loop does not catch leaves build_semantic_layer
Escapes(outcomes) == \E k \in 1..3 : outcomes[k] = "AttributeError"

\* lines 2316-2333: the entry of the segment in segment_context
SegmentContextEntry(segment, outcomes, municipality_trace, vectors) ==
    [segment_index |-> segment.segment_index,
     from_stop_id |-> segment.from_stop_id,
     to_stop_id |-> segment.to_stop_id,
     distance_km |-> segment.distance_km,
     cumulative_distance_km |-> segment.cumulative_distance_km,
     eta_min_from_departure |-> segment.eta_min_from_departure,
     municipality_trace |-> municipality_trace,
     municipality_names |-> vectors.municipality,
     province_names |-> vectors.province,
     province_capital_names |-> vectors.province_capital,
     weather |-> WeatherAfterFetch(UnknownWeatherContext, outcomes[1]),
     traffic |-> TrafficAfterForecast(
                     TrafficAfterStatus(UnknownTrafficContext, outcomes[2]),
                     outcomes[3])]

LayerInit ==
    /\ layer_pc = "routes"
    /\ layer_input \in [routes : RouteListsUpTo(MaxLayerSegments),
                        here_client : HereClients,
                        municipality_enrichment_enabled : BOOLEAN,
                        province_capital_lookup_enabled : BOOLEAN]
    /\ layer_input.province_capital_lookup_enabled
           => layer_input.municipality_enrichment_enabled
    /\ layer_route = None
    /\ routes_output = <<>>
    /\ here_errors = <<>>
    /\ layer_calls = <<>>
    /\ layer_result = None
    /\ SolveIdle
    /\ EnrichIdle
    /\ ProviderIdle
    /\ ResolverIdle
    /\ BuilderIdle
    /\ ScorerIdle
    /\ ExtractIdle
    /\ LimitIdle
    /\ HandlerIdle
    /\ GeometryIdle
    /\ MergeIdle

\* lines 2135-2152: the next route of vrp_result is taken up
StartRoute ==
    /\ layer_pc = "routes"
    /\ Len(routes_output) < Len(layer_input.routes)
    /\ LET route == layer_input.routes[Len(routes_output) + 1]
       IN  layer_route' =
               [route |-> route,
                segments |-> BuildRouteSegments(route.stops, 60, NoTime),
                semantic_locations |->
                    SemanticLocationsForRoute(route, <<>>, 1000, {}, 1),
                segment_context |-> <<>>,
                vectors |-> NoVectors]
    /\ layer_pc' = "segments"
    /\ UNCHANGED <<layer_input, routes_output, here_errors, layer_calls,
                   layer_result>>
    /\ UNCHANGED outsideLayer

\* lines 2154-2333: one pass of the loop over the segments of the route; an
\* exception that is no RuntimeError ends build_semantic_layer
EnrichSegment ==
    /\ layer_pc = "segments"
    /\ Len(layer_route.segment_context) < Len(layer_route.segments)
    /\ \E outcomes \in CallOutcomes(layer_input.here_client),
          resolved \in (IF layer_input.municipality_enrichment_enabled
                        THEN SampleRuns ELSE {<<>>}) :
          LET segment == layer_route.segments[Len(layer_route.segment_context) + 1]
              municipality_trace == BuildMunicipalityTrace(resolved)
              vectors == BuildSegmentAdminVectors(
                             municipality_trace,
                             layer_input.province_capital_lookup_enabled)
          IN  /\ layer_calls' = Append(layer_calls,
                     [route |-> Len(routes_output) + 1,
                      segment_index |-> segment.segment_index,
                      outcomes |-> outcomes])
              /\ here_errors' = here_errors \o HereErrorsOf(outcomes)
              /\ IF Escapes(outcomes)
                 THEN /\ layer_pc' = "raised"
                      /\ UNCHANGED layer_route
                 ELSE /\ layer_pc' = "segments"
                      /\ layer_route' =
                             [layer_route EXCEPT
                                 !.segment_context =
                                     Append(@, SegmentContextEntry(
                                                   segment, outcomes,
                                                   municipality_trace, vectors)),
                                 !.vectors =
                                     [municipality |->
                                          AppendAllUniqueInOrder(
                                              @.municipality, vectors.municipality),
                                      province |->
                                          AppendAllUniqueInOrder(
                                              @.province, vectors.province),
                                      province_capital |->
                                          AppendAllUniqueInOrder(
                                              @.province_capital,
                                              vectors.province_capital)]]
    /\ UNCHANGED <<layer_input, routes_output, layer_result>>
    /\ UNCHANGED outsideLayer

\* lines 2335-2359: the route joins routes_output
FinishRoute ==
    /\ layer_pc = "segments"
    /\ Len(layer_route.segment_context) = Len(layer_route.segments)
    /\ routes_output' = Append(routes_output,
           [vehicle |-> layer_route.route.vehicle,
            province_vector |-> layer_route.vectors.province,
            province_capital_vector |-> layer_route.vectors.province_capital,
            municipality_vector |-> layer_route.vectors.municipality,
            semantic_locations |-> layer_route.semantic_locations,
            segment_context |-> layer_route.segment_context])
    /\ layer_pc' = "routes"
    /\ UNCHANGED <<layer_input, layer_route, here_errors, layer_calls,
                   layer_result>>
    /\ UNCHANGED outsideLayer

\* lines 2512-2616: build_semantic_layer returns
LayerReturn ==
    /\ layer_pc = "routes"
    /\ Len(routes_output) = Len(layer_input.routes)
    /\ layer_result' = [errors |-> Take(here_errors, ErrorsLimit),
                        routes |-> routes_output]
    /\ layer_pc' = "returned"
    /\ UNCHANGED <<layer_input, layer_route, routes_output, here_errors,
                   layer_calls>>
    /\ UNCHANGED outsideLayer

LayerNext ==
    \/ StartRoute
    \/ EnrichSegment
    \/ FinishRoute
    \/ LayerReturn

SpecLayer == LayerInit /\ [][LayerNext]_vars

-----------------------------------------------------------------------------
(* Part VIII.  The row _reverse_geocode_stop_address makes of the payload  *)
(* the reverse geocoder answered with (lines 651-693).  The values of the  *)
(* address map are strings, some empty, blank or padded with blanks.       *)

\* bound: the fields of an address map
MaxAddressFields == 2

MUNICIPALITY_ADDRESS_PRIORITY ==
    <<"municipality", "city", "town", "village", "city_district", "district",
      "borough", "suburb", "quarter", "hamlet", "neighbourhood", "locality">>

NON_MUNICIPALITY_ADMIN_FIELDS ==
    {"country", "country_code", "state", "state_district", "province", "region",
     "county"}

\* the fields an address map may carry
AddressFields == Range(MUNICIPALITY_ADDRESS_PRIORITY) \cup {"county", "road"}

\* the values of a field
AddressValues == {"", " ", "Getafe", " Leganes "}

\* str.strip
Strip(text) ==
    CASE text = " " -> ""
      [] text = " Leganes " -> "Leganes"
      [] OTHER -> text

\* the payloads of at most n address fields
PayloadsUpTo(n) ==
    {[address |-> address] :
        address \in UNION {[fields -> AddressValues] :
                             fields \in {f \in SUBSET AddressFields :
                                            Cardinality(f) <= n}}}

\* lines 233-237: the loop over the keys of the priority that are left
RECURSIVE MunicipalityFrom(_, _)
MunicipalityFrom(address, keys) ==
    IF keys = <<>> THEN [name |-> "", field |-> ""]
    ELSE LET value == Strip(Get(address, Head(keys), ""))
         IN  IF value # "" THEN [name |-> value, field |-> Head(keys)]
             ELSE MunicipalityFrom(address, Tail(keys))

\* _extract_municipality_from_reverse_payload that ends with the last field
\* of the priority that has a value
ExtractMunicipalityFromReversePayload_LastField(payload) ==
    MunicipalityFrom(payload.address, Reversed(MUNICIPALITY_ADDRESS_PRIORITY))

\* _extract_municipality_from_reverse_payload; (None, None) is ("", "")
ExtractMunicipalityFromReversePayload(payload) ==
    MunicipalityFrom(payload.address, MUNICIPALITY_ADDRESS_PRIORITY)

\* lines 651-693: the row of the payload
ReverseGeocodeRow(payload) ==
    LET municipality == ExtractMunicipalityFromReversePayload(payload)
    IN  [status |-> IF municipality.name # "" THEN "resolved" ELSE "unknown",
         municipality_name |-> municipality.name,
         municipality_source_field |-> municipality.field,
         address |-> payload.address,
         resolution_note |->
             IF municipality.name # "" THEN "resolved"
             ELSE IF DOMAIN payload.address # {}
                     /\ DOMAIN payload.address \subseteq NON_MUNICIPALITY_ADMIN_FIELDS
             THEN "non_municipality_admin_only"
             ELSE "municipality_not_found"]

ExtractInit ==
    /\ extract_pc = "called"
    /\ extract_payload \in PayloadsUpTo(MaxAddressFields)
    /\ extract_row = None
    /\ SolveIdle
    /\ EnrichIdle
    /\ ProviderIdle
    /\ ResolverIdle
    /\ BuilderIdle
    /\ ScorerIdle
    /\ LayerIdle
    /\ LimitIdle
    /\ HandlerIdle
    /\ GeometryIdle
    /\ MergeIdle

\* _reverse_geocode_stop_address returns the row
ExtractReturn ==
    /\ extract_pc = "called"
    /\ extract_row' = ReverseGeocodeRow(extract_payload)
    /\ extract_pc' = "returned"
    /\ UNCHANGED extract_payload
    /\ UNCHANGED outsideExtract

SpecExtract == ExtractInit /\ [][ExtractReturn]_vars

-----------------------------------------------------------------------------
(* Part IX.  _limit_samples (lines 1268-1283) on the samples of a segment  *)
(* as _sample_segment_points and _sample_polyline_points number them: the  *)
(* sample_index of a sample is its position, from 0.                       *)

\* bounds: the samples of a segment and max_samples
MaxSampleCount == 10
MaxSampleLimit == 6

\* lines 1098-1115: the samples of a segment of n - 1 steps
SamplesOf(n) ==
    [k \in 1..n |-> [sample_index |-> k - 1,
                     position |-> IF k = 1 THEN "start"
                                  ELSE IF k = n THEN "end" ELSE "along"]]

\* int(round(a / float(b))) for a >= 0 and b > 0: python rounds a half to
\* the even neighbour
RoundHalfEven(a, b) ==
    LET q == a \div b
        r == a % b
    IN  IF 2 * r < b THEN q
        ELSE IF 2 * r > b THEN q + 1
        ELSE IF q % 2 = 0 THEN q ELSE q + 1

\* lines 1276-1281: the loop over the slots from `slot` on
RECURSIVE PickedFrom(_, _, _, _, _)
PickedFrom(samples, max_samples, slot, picked, used_indexes) ==
    IF slot >= max_samples THEN picked
    ELSE LET idx == RoundHalfEven(slot * (Len(samples) - 1), max_samples - 1)
         IN  IF idx \in used_indexes
             THEN PickedFrom(samples, max_samples, slot + 1, picked, used_indexes)
             ELSE PickedFrom(samples, max_samples, slot + 1,
                             Append(picked, samples[idx + 1]),
                             used_indexes \cup {idx})

\* _limit_samples that keeps the first max_samples samples
LimitSamples_KeepsPrefix(samples, max_samples) ==
    IF max_samples <= 0 \/ Len(samples) <= max_samples THEN samples
    ELSE SubSeq(samples, 1, max_samples)

\* _limit_samples
LimitSamples(samples, max_samples) ==
    IF max_samples <= 0 \/ Len(samples) <= max_samples THEN samples
    ELSE IF max_samples = 1 THEN <<samples[1]>>
    ELSE LET picked == PickedFrom(samples, max_samples, 0, <<>>, {})
         IN  SortedByKey(picked,
                         [k \in DOMAIN picked |-> <<picked[k].sample_index>>])

LimitInit ==
    /\ limit_pc = "called"
    /\ limit_input \in {[samples |-> SamplesOf(n), max_samples |-> max_samples] :
                           n \in 2..MaxSampleCount,
                           max_samples \in 0..MaxSampleLimit}
    /\ limit_picked = <<>>
    /\ SolveIdle
    /\ EnrichIdle
    /\ ProviderIdle
    /\ ResolverIdle
    /\ BuilderIdle
    /\ ScorerIdle
    /\ LayerIdle
    /\ ExtractIdle
    /\ HandlerIdle
    /\ GeometryIdle
    /\ MergeIdle

\* _limit_samples returns
LimitReturn ==
    /\ limit_pc = "called"
    /\ limit_picked' = LimitSamples(limit_input.samples, limit_input.max_samples)
    /\ limit_pc' = "returned"
    /\ UNCHANGED limit_input
    /\ UNCHANGED outsideLimit

SpecLimit == LimitInit /\ [][LimitReturn]_vars

-----------------------------------------------------------------------------
(* Part X.  The pipeline of _solve (function_app.py lines 953-1032): the   *)
(* body is validated, the observations of the input points are prefetched  *)
(* in before_vrp mode, the solver is called and build_semantic_layer       *)
(* enriches its result.  The solver and the layer are cut down to what the *)
(* pipeline shows of them: the solver returns one route through all        *)
(* customers, the layer makes its provider calls segment by segment.  A    *)
(* body is a record of the keys it carries.                                *)

\* bound: the customers of a long request
ManyCustomers == 10

\* prefetch_errors[:20]
PrefetchErrorsLimit == 20

\* how many customers a request has
CustomerCounts == {1, 2, ManyCustomers}

\* the input points: the depot is point 0, customer k lies k to the north
InputPoint(k) == [id |-> k, lat |-> 40 + k, lng |-> 0 - 3]

\* an observation the caller supplies
CallerObservation == [lat |-> 40, lng |-> 0 - 3, source |-> "caller"]

\* the options of a body that steer the pipeline
PipelineOptions ==
    {options \in UNION {[keys -> {"before_vrp", "emulator", "off", "given"}] :
                          keys \in SUBSET {"here_pipeline_mode", "here_data_source",
                                           "use_here_platform",
                                           "weather_observations",
                                           "include_semantic_layer"}} :
        /\ "here_pipeline_mode" \in DOMAIN options
               => options.here_pipeline_mode = "before_vrp"
        /\ "here_data_source" \in DOMAIN options
               => options.here_data_source = "emulator"
        /\ "use_here_platform" \in DOMAIN options
               => options.use_here_platform = "off"
        /\ "include_semantic_layer" \in DOMAIN options
               => options.include_semantic_layer = "off"
        /\ "weather_observations" \in DOMAIN options
               => options.weather_observations = "given"}

\* the bodies with every required field
CompleteBodies ==
    {[depot |-> <<InputPoint(0)>>,
      customers |-> [k \in 1..n |-> InputPoint(k)],
      vehicles |-> <<2>>, capacity |-> <<5>>, options |-> options] :
        n \in CustomerCounts, options \in PipelineOptions}

\* bodies that lack a required field (an absent field is <<>>), and a body
\* that is no JSON
IncompleteBodies ==
    {[depot |-> depot, customers |-> customers, vehicles |-> vehicles_field,
      capacity |-> capacity_field,
      options |-> [here_pipeline_mode |-> "before_vrp"]] :
        depot \in {<<>>, <<InputPoint(0)>>},
        customers \in {<<>>, <<InputPoint(1)>>},
        vehicles_field \in {<<>>, <<2>>},
        capacity_field \in {<<>>, <<5>>}}
    \ {[depot |-> <<InputPoint(0)>>, customers |-> <<InputPoint(1)>>,
        vehicles |-> <<2>>, capacity |-> <<5>>,
        options |-> [here_pipeline_mode |-> "before_vrp"]]}

InvalidJson == [invalid_json |-> TRUE]

\* payload.get(field, default) of a field that is absent or holds one value
FieldOr(field, default) == IF field = <<>> THEN default ELSE field[1]

\* _resolve_here_pipeline_mode
ResolveHerePipelineMode(options) ==
    IF "here_pipeline_mode" \in DOMAIN options THEN "before_vrp"
    ELSE "postprocessing"

\* _resolve_here_data_source
ResolveHereDataSource(options) ==
    IF "here_data_source" \in DOMAIN options THEN "emulator" ELSE "here"

\* _as_bool(payload.get(key), True) and _safe_bool(..., True)
AsBool(options, key) == key \notin DOMAIN options

\* lines 954-978: the response to a body _solve refuses, None for the others
RefusalOf(body) ==
    IF "invalid_json" \in DOMAIN body
    THEN [status_code |-> 400, body |-> [error |-> "Invalid JSON"]]
    ELSE IF body.depot = <<>> \/ Len(body.customers) = 0
    THEN [status_code |-> 400,
          body |-> [error |-> "depot and customers are required"]]
    ELSE None

\* lines 978-985: semantic_payload before the prefetch
InitialSemanticPayload(body) ==
    [here_pipeline_mode |-> ResolveHerePipelineMode(body.options),
     here_data_source |-> ResolveHereDataSource(body.options),
     use_here_platform |-> AsBool(body.options, "use_here_platform"),
     include_semantic_layer |-> AsBool(body.options, "include_semantic_layer"),
     weather_observations |->
         IF "weather_observations" \in DOMAIN body.options
         THEN <<CallerObservation>> ELSE <<>>,
     traffic_observations |-> <<>>,
     here_prefetch |-> <<>>]

\* how the lookups of the prefetch end at the points 0..n: nowhere a
\* failure, one failure, or a failure of every lookup
PrefetchOutcomes(n) ==
    {[k \in 0..n |-> [weather |-> "ok", status |-> "ok", forecast |-> "ok"]],
     [k \in 0..n |-> [weather |-> "raises", status |-> "raises",
                      forecast |-> "not_called"]]}
    \cup {[k \in 0..n |->
             IF k # at THEN [weather |-> "ok", status |-> "ok", forecast |-> "ok"]
             ELSE [weather |-> (IF kind = "weather" THEN "raises" ELSE "ok"),
                   status |-> (IF kind = "status" THEN "raises" ELSE "ok"),
                   forecast |-> (IF kind = "status" THEN "not_called"
                                 ELSE IF kind = "forecast" THEN "raises"
                                 ELSE "ok")]] :
            at \in 0..n, kind \in {"weather", "status", "forecast"}}

\* the calls of a prefetch that leaves a point at its first failure
PrefetchCallsAt_LeavesPointAtFailure(point, outcome, is_depot) ==
    <<[stage |-> "prefetch", call |-> "fetch_weather", at |-> point.id,
       outcome |-> outcome.weather]>>
    \o (IF outcome.weather = "ok"
        THEN <<[stage |-> "prefetch", call |-> "fetch_traffic_status",
                at |-> point.id, outcome |-> outcome.status]>>
        ELSE <<>>)

\* the provider calls of the prefetch at one point, in order
PrefetchCallsAt(point, outcome, is_depot) ==
    <<[stage |-> "prefetch", call |-> "fetch_weather", at |-> point.id,
       outcome |-> outcome.weather],
      [stage |-> "prefetch", call |-> "fetch_traffic_status", at |-> point.id,
       outcome |-> outcome.status]>>
    \o (IF outcome.status = "ok" /\ ~is_depot
        THEN <<[stage |-> "prefetch", call |-> "fetch_traffic_forecast",
                at |-> point.id, outcome |-> outcome.forecast]>>
        ELSE <<>>)

\* lines 129-176: the loop over the points from point k on
RECURSIVE PrefetchFrom(_, _, _, _)
PrefetchFrom(points_left, outcomes, k, acc) ==
    IF points_left = <<>> THEN acc
    ELSE LET point == Head(points_left)
             outcome == outcomes[k]
             traffic_ok == outcome.status = "ok"
                           /\ (k = 0 \/ outcome.forecast = "ok")
         IN  PrefetchFrom(
                 Tail(points_left), outcomes, k + 1,
                 [weather_observations |->
                      IF outcome.weather = "ok"
                      THEN Append(acc.weather_observations,
                                  [lat |-> point.lat, lng |-> point.lng,
                                   source |-> "here_weather_v3"])
                      ELSE acc.weather_observations,
                  traffic_observations |->
                      IF traffic_ok
                      THEN Append(acc.traffic_observations,
                                  [lat |-> point.lat, lng |-> point.lng,
                                   source |-> "here_traffic_v7"])
                      ELSE acc.traffic_observations,
                  prefetch_errors |->
                      acc.prefetch_errors
                      \o (IF outcome.weather = "ok" THEN <<>>
                          ELSE <<<<"weather prefetch failed at", point.lat,
                                   point.lng>>>>)
                      \o (IF traffic_ok THEN <<>>
                          ELSE <<<<"traffic prefetch failed at", point.lat,
                                   point.lng>>>>),
                  calls |-> acc.calls
                            \o PrefetchCallsAt(point, outcome, k = 0)])

\* _prefetch_here_point_observations that leaves use_here_platform as it is
PrefetchHerePointObservations_KeepsPlatformOn(payload, depot, customers, api_key, outcomes) ==
    IF payload.here_data_source = "here" /\ ~api_key
    THEN [payload |->
              [payload EXCEPT
                  !.here_prefetch =
                      <<[enabled |-> FALSE, data_source |-> "here",
                         error |-> "HERE_API_KEY environment variable is not set."]>>],
          calls |-> <<>>]
    ELSE LET fetched == PrefetchFrom(<<depot>> \o customers, outcomes, 0,
                            [weather_observations |-> payload.weather_observations,
                             traffic_observations |-> payload.traffic_observations,
                             prefetch_errors |-> <<>>, calls |-> <<>>])
         IN  [payload |->
                  [payload EXCEPT
                      !.weather_observations = fetched.weather_observations,
                      !.traffic_observations = fetched.traffic_observations,
                      !.here_prefetch =
                          <<[enabled |-> TRUE,
                             data_source |-> payload.here_data_source,
                             points_queried |-> Len(customers) + 1,
                             errors |-> Take(fetched.prefetch_errors,
                                             PrefetchErrorsLimit)]>>],
              calls |-> fetched.calls]

\* _prefetch_here_point_observations: the payload it returns and the
\* provider calls it makes
PrefetchHerePointObservations(payload, depot, customers, api_key, outcomes) ==
    IF payload.here_data_source = "here" /\ ~api_key
    THEN [payload |->
              [payload EXCEPT
                  !.here_prefetch =
                      <<[enabled |-> FALSE, data_source |-> "here",
                         error |-> "HERE_API_KEY environment variable is not set."]>>],
          calls |-> <<>>]
    ELSE LET fetched == PrefetchFrom(<<depot>> \o customers, outcomes, 0,
                            [weather_observations |-> payload.weather_observations,
                             traffic_observations |-> payload.traffic_observations,
                             prefetch_errors |-> <<>>, calls |-> <<>>])
         IN  [payload |->
                  [payload EXCEPT
                      !.weather_observations = fetched.weather_observations,
                      !.traffic_observations = fetched.traffic_observations,
                      !.use_here_platform = FALSE,
                      !.here_prefetch =
                          <<[enabled |-> TRUE,
                             data_source |-> payload.here_data_source,
                             points_queried |-> Len(customers) + 1,
                             errors |-> Take(fetched.prefetch_errors,
                                             PrefetchErrorsLimit)]>>],
              calls |-> fetched.calls]

\* the solver, cut down: one route from the depot through the customers
RouteThroughAll(depot, customers) ==
    [routes |-> <<[vehicle |-> 1, stops |-> <<depot>> \o customers \o <<depot>>]>>,
     unserved_customer_ids |-> <<>>]

\* a client that is made whether or not the key is set
LayerClientOf_IgnoresKey(payload, api_key) ==
    [client |-> IF payload.use_here_platform THEN payload.here_data_source
                ELSE "none",
     here_api_key_source |->
         IF ~payload.use_here_platform THEN "disabled"
         ELSE IF payload.here_data_source = "emulator"
         THEN "not_required_emulator"
         ELSE IF api_key THEN "env:HERE_API_KEY"
         ELSE "missing_env:HERE_API_KEY"]

\* semantic_layer.py lines 1894-1906 and 1997-2013: the provider client of
\* build_semantic_layer
LayerClientOf(payload, api_key) ==
    LET here_enabled ==
            \/ payload.use_here_platform /\ payload.here_data_source = "emulator"
            \/ payload.use_here_platform /\ payload.here_data_source = "here"
               /\ api_key
    IN  [client |-> IF here_enabled THEN payload.here_data_source ELSE "none",
         here_api_key_source |->
             IF ~payload.use_here_platform THEN "disabled"
             ELSE IF payload.here_data_source = "emulator"
             THEN "not_required_emulator"
             ELSE IF api_key THEN "env:HERE_API_KEY"
             ELSE "missing_env:HERE_API_KEY"]

\* semantic_layer.py lines 2178-2235: the provider calls of the segments
\* from segment `index` on
RECURSIVE LayerCallsFrom(_, _)
LayerCallsFrom(stops, index) ==
    IF Len(stops) < 2 THEN <<>>
    ELSE <<[stage |-> "layer", call |-> "fetch_weather", at |-> index,
            outcome |-> "ok"],
           [stage |-> "layer", call |-> "fetch_traffic_status", at |-> index,
            outcome |-> "ok"],
           [stage |-> "layer", call |-> "fetch_traffic_forecast", at |-> index,
            outcome |-> "ok"]>>
         \o LayerCallsFrom(Tail(stops), index + 1)

\* build_semantic_layer, cut down: its configuration, the observations it
\* matches the segments with, the segments it enriches and its provider calls
PipelineLayer(vrp_result, payload, api_key) ==
    LET made == LayerClientOf(payload, api_key)
        stops == vrp_result.routes[1].stops
    IN  [layer |->
             [status |-> "ok",
              config |-> [use_here_platform |-> made.client # "none",
                          here_data_source |-> payload.here_data_source,
                          here_api_key_source |-> made.here_api_key_source,
                          here_pipeline_mode |-> payload.here_pipeline_mode],
              weather_observations |-> payload.weather_observations,
              segments |-> Len(stops) - 1],
         client |-> made.client,
         calls |-> IF made.client = "none" THEN <<>>
                   ELSE LayerCallsFrom(stops, 0)]

HandlerInit ==
    /\ handler_pc = "received"
    /\ handler_body \in CompleteBodies \cup IncompleteBodies \cup {InvalidJson}
    /\ here_api_key \in BOOLEAN
    /\ handler_payload = None
    /\ solver_result = None
    /\ handler_log = <<>>
    /\ handler_response = None
    /\ SolveIdle
    /\ EnrichIdle
    /\ ProviderIdle
    /\ ResolverIdle
    /\ BuilderIdle
    /\ ScorerIdle
    /\ LayerIdle
    /\ ExtractIdle
    /\ LimitIdle
    /\ GeometryIdle
    /\ MergeIdle

\* lines 954-978: a body _solve refuses
RefuseBody ==
    /\ handler_pc = "received"
    /\ RefusalOf(handler_body) # None
    /\ handler_response' = RefusalOf(handler_body)
    /\ handler_pc' = "responded"
    /\ UNCHANGED <<handler_body, here_api_key, handler_payload, solver_result,
                   handler_log>>
    /\ UNCHANGED outsideHandler

\* lines 980-992: semantic_payload, with the prefetch in before_vrp mode
Prefetch ==
    /\ handler_pc = "received"
    /\ RefusalOf(handler_body) = None
    /\ LET initial == InitialSemanticPayload(handler_body)
       IN  IF initial.here_pipeline_mode = "before_vrp" /\ initial.use_here_platform
           THEN \E outcomes \in
                    (IF initial.here_data_source = "here" /\ ~here_api_key
                     THEN {<<>>}
                     ELSE PrefetchOutcomes(Len(handler_body.customers))) :
                  LET out == PrefetchHerePointObservations(
                                 initial, handler_body.depot[1],
                                 handler_body.customers, here_api_key, outcomes)
                  IN  /\ handler_payload' = out.payload
                      /\ handler_log' = out.calls
           ELSE /\ handler_payload' = initial
                /\ handler_log' = <<>>
    /\ handler_pc' = "prefetched"
    /\ UNCHANGED <<handler_body, here_api_key, solver_result, handler_response>>
    /\ UNCHANGED outsideHandler

\* lines 994-1013: the call of the solver, which may raise
CallSolver ==
    /\ handler_pc = "prefetched"
    /\ handler_log' = Append(handler_log,
           [stage |-> "solver", call |-> "solve_vrp_nearest_neighbor",
            at |-> FieldOr(handler_body.vehicles, 1),
            outcome |-> "ok"])
    /\ \E outcome \in {"returns", "RuntimeError"} :
          IF outcome = "returns"
          THEN /\ solver_result' = RouteThroughAll(handler_body.depot[1],
                                                   handler_body.customers)
               /\ handler_pc' = "solved"
               /\ UNCHANGED handler_response
          ELSE /\ handler_response' = SolverErrorResponse("osrm unavailable")
               /\ handler_pc' = "responded"
               /\ UNCHANGED solver_result
    /\ UNCHANGED <<handler_body, here_api_key, handler_payload>>
    /\ UNCHANGED outsideHandler

\* lines 1015-1032: the enrichment and the response
EnrichAndRespond ==
    /\ handler_pc = "solved"
    /\ LET built == PipelineLayer(solver_result, handler_payload, here_api_key)
           enriched == IF handler_payload.include_semantic_layer
                       THEN Put(solver_result, "semantic_layer", built.layer)
                       ELSE solver_result
       IN  /\ handler_log' = IF handler_payload.include_semantic_layer
                             THEN handler_log \o built.calls ELSE handler_log
           /\ handler_response' =
                  [status_code |-> 200,
                   body |-> IF handler_payload.here_prefetch # <<>>
                            THEN Put(enriched, "here_prefetch",
                                     handler_payload.here_prefetch[1])
                            ELSE enriched]
    /\ handler_pc' = "responded"
    /\ UNCHANGED <<handler_body, here_api_key, handler_payload, solver_result>>
    /\ UNCHANGED outsideHandler

HandlerNext ==
    \/ RefuseBody
    \/ Prefetch
    \/ CallSolver
    \/ EnrichAndRespond

SpecHandler == HandlerInit /\ [][HandlerNext]_vars

-----------------------------------------------------------------------------
(* Part XI.  The road geometry of the segments in the loop of              *)
(* build_semantic_layer (lines 2252-2283) and what the layer reports of it *)
(* (lines 2481-2510).  Municipality enrichment is enabled.  A segment is   *)
(* the pair of the coordinate keys of its ends; the geometry of a pair is  *)
(* fetched once and cached, a failure included.  The samples of every      *)
(* segment resolve, so that phase 2 adds no entry to municipality_errors.  *)

\* bound: the segments of the routes
MaxGeometrySegments == 3

\* the segments: two customers may lie at one coordinate
GeometrySegments ==
    {[start |-> "40.0,-3.0", end |-> "40.1,-3.1"],
     [start |-> "40.1,-3.1", end |-> "40.0,-3.0"],
     [start |-> "40.0,-3.0", end |-> "40.2,-3.2"]}

\* the key of the segment in segment_shape_cache
ShapeCacheKey(segment) == <<segment.start, segment.end>>

\* segment_shape_stats at the start
NewShapeStats(enabled) ==
    [enabled |-> enabled, attempted |-> 0, fetched |-> 0, cache_hits |-> 0,
     failed |-> 0, fallback_to_straight |-> 0]

\* the geometry step that counts a fallback only when the fetch fails
SegmentGeometry_CountsFailedFetches(cache, shape_stats, errors, segment, enabled, outcome) ==
    LET key == ShapeCacheKey(segment)
    IN  IF ~enabled
        THEN [cache |-> cache, stats |-> shape_stats, errors |-> errors,
              route_shape_points |-> "none"]
        ELSE IF key \in DOMAIN cache
        THEN [cache |-> cache,
              stats |-> [shape_stats EXCEPT !.cache_hits = @ + 1],
              errors |-> errors,
              route_shape_points |-> cache[key]]
        ELSE IF outcome = "fetched"
        THEN [cache |-> Put(cache, key, "polyline"),
              stats |-> [shape_stats EXCEPT !.attempted = @ + 1, !.fetched = @ + 1],
              errors |-> errors,
              route_shape_points |-> "polyline"]
        ELSE [cache |-> Put(cache, key, "none"),
              stats |-> [shape_stats EXCEPT !.attempted = @ + 1, !.failed = @ + 1,
                                      !.fallback_to_straight = @ + 1],
              errors |-> Append(errors,
                            <<"municipality geometry fetch failed",
                              segment.start, segment.end>>),
              route_shape_points |-> "none"]

\* lines 2252-2283: the cache, the statistics and the errors after the
\* geometry of a segment was looked up, and the route_shape_points the
\* trace of the segment is built with
SegmentGeometry(cache, shape_stats, errors, segment, enabled, outcome) ==
    LET key == ShapeCacheKey(segment)
        looked_up ==
            IF key \in DOMAIN cache
            THEN [cache |-> cache,
                  stats |-> [shape_stats EXCEPT !.cache_hits = @ + 1],
                  errors |-> errors,
                  route_shape_points |-> cache[key]]
            ELSE IF outcome = "fetched"
            THEN [cache |-> Put(cache, key, "polyline"),
                  stats |-> [shape_stats EXCEPT !.attempted = @ + 1,
                                          !.fetched = @ + 1],
                  errors |-> errors,
                  route_shape_points |-> "polyline"]
            ELSE [cache |-> Put(cache, key, "none"),
                  stats |-> [shape_stats EXCEPT !.attempted = @ + 1,
                                          !.failed = @ + 1],
                  errors |-> Append(errors,
                                <<"municipality geometry fetch failed",
                                  segment.start, segment.end>>),
                  route_shape_points |-> "none"]
    IN  IF ~enabled
        THEN [cache |-> cache, stats |-> shape_stats, errors |-> errors,
              route_shape_points |-> "none"]
        ELSE IF looked_up.route_shape_points = "none"
        THEN [looked_up EXCEPT !.stats.fallback_to_straight = @ + 1]
        ELSE looked_up

\* lines 856-871: the line the samples of the trace are taken from
SampledAlong(route_shape_points) ==
    IF route_shape_points = "polyline" THEN "road" ELSE "straight"

\* lines 2484-2510: the warnings municipality_post_output_notice joins
PostOutputNotice(fallback_to_straight, phase1_unknown, phase1_failed, api_status) ==
    LET post_output_warnings ==
            (IF fallback_to_straight > 0
             THEN <<[warning |-> "Municipality tracing used straight-line fallback",
                     count |-> fallback_to_straight]>>
             ELSE <<>>)
            \o (IF phase1_unknown > 0 \/ phase1_failed > 0
                THEN <<[warning |-> "Municipality phase 1 has unresolved coordinates",
                        count |-> phase1_unknown + phase1_failed]>>
                ELSE <<>>)
            \o (IF api_status # "ok"
                THEN <<[warning |-> "Municipality API status is", count |-> 0]>>
                ELSE <<>>)
    IN  IF post_output_warnings # <<>> THEN post_output_warnings
        ELSE <<[warning |-> "Municipality fallback warning: none", count |-> 0]>>

GeometryInit ==
    /\ geometry_pc = "segments"
    /\ \E len \in 1..MaxGeometrySegments :
          geometry_input \in
              [segments : [1..len -> GeometrySegments],
               municipality_route_geometry_enabled : BOOLEAN,
               phase1_unknown : {0, 1}]
    /\ segment_shape_cache = <<>>
    /\ segment_shape_stats
           = NewShapeStats(geometry_input.municipality_route_geometry_enabled)
    /\ municipality_errors
           = [k \in 1..geometry_input.phase1_unknown |->
                 <<"municipality reverse geocode stop unresolved", "40.2,-3.2", "">>]
    /\ segment_shapes = <<>>
    /\ geometry_result = None
    /\ SolveIdle
    /\ EnrichIdle
    /\ ProviderIdle
    /\ ResolverIdle
    /\ BuilderIdle
    /\ ScorerIdle
    /\ LayerIdle
    /\ ExtractIdle
    /\ LimitIdle
    /\ HandlerIdle
    /\ MergeIdle

\* lines 2252-2292: the geometry of the next segment and its trace
TraceSegment ==
    /\ geometry_pc = "segments"
    /\ Len(segment_shapes) < Len(geometry_input.segments)
    /\ \E outcome \in {"fetched", "fails"} :
          LET segment == geometry_input.segments[Len(segment_shapes) + 1]
              after == SegmentGeometry(
                           segment_shape_cache, segment_shape_stats,
                           municipality_errors, segment,
                           geometry_input.municipality_route_geometry_enabled,
                           outcome)
          IN  /\ segment_shape_cache' = after.cache
              /\ segment_shape_stats' = after.stats
              /\ municipality_errors' = after.errors
              /\ segment_shapes' = Append(segment_shapes,
                     [segment |-> segment,
                      sampled_along |-> SampledAlong(after.route_shape_points)])
    /\ UNCHANGED <<geometry_pc, geometry_input, geometry_result>>
    /\ UNCHANGED outsideGeometry

\* lines 2366-2510: municipality_api, errors and the notice
GeometryReturn ==
    /\ geometry_pc = "segments"
    /\ Len(segment_shapes) = Len(geometry_input.segments)
    /\ LET api_status == IF geometry_input.phase1_unknown = 0 THEN "ok"
                         ELSE "partial"
       IN  geometry_result' =
               [municipality_api |->
                    [status |-> api_status,
                     route_geometry |-> segment_shape_stats,
                     errors |-> Take(municipality_errors, ErrorsLimit)],
                errors |-> Take(municipality_errors, ErrorsLimit),
                municipality_post_output_notice |->
                    PostOutputNotice(segment_shape_stats.fallback_to_straight,
                                     geometry_input.phase1_unknown, 0, api_status)]
    /\ geometry_pc' = "returned"
    /\ UNCHANGED <<geometry_input, segment_shape_cache, segment_shape_stats,
                   municipality_errors, segment_shapes>>
    /\ UNCHANGED outsideGeometry

GeometryNext ==
    \/ TraceSegment
    \/ GeometryReturn

SpecGeometry == GeometryInit /\ [][GeometryNext]_vars

-----------------------------------------------------------------------------
(* Part XII.  The weather and traffic context of one segment (lines        *)
(* 2155-2246 of build_semantic_layer) when a provider client exists: the   *)
(* observation matched from the lists of the caller is formatted, then the *)
(* three provider calls are made.  A value that python leaves out or sets  *)
(* to None is the empty tuple.                                             *)

\* what the caller sends for a kind: nothing, an observation, an
\* observation with a forecast of its own
MatchedObservations(kind) ==
    {<<>>,
     <<[source |-> "caller_feed", reading |-> 7, forecast_24h |-> <<>>]>>,
     <<[source |-> "caller_feed", reading |-> 7,
        forecast_24h |-> <<[status |-> "forecasted", source |-> "caller_feed",
                            kind |-> kind]>>]>>}

\* what fetch_weather answers: a bundle of a realtime result and, possibly,
\* a forecast, or a RuntimeError
WeatherAnswers ==
    {[raised |-> "RuntimeError"]}
    \cup {[raised |-> "",
           realtime |-> [status |-> status, source |-> "here_weather_v3",
                         reading |-> (IF status = "observed" THEN 21 ELSE 0 - 1)],
           forecast_24h |-> forecast] :
             status \in {"observed", "unknown"},
             forecast \in {<<>>, <<[status |-> "forecasted",
                                    source |-> "here_weather_v3",
                                    kind |-> "weather"]>>}}

\* what fetch_traffic_status answers
TrafficStatusAnswers ==
    {[raised |-> "RuntimeError"]}
    \cup {[raised |-> "",
           realtime |-> [status |-> status, source |-> "here_traffic_v7",
                         reading |-> (IF status = "observed" THEN 35 ELSE 0 - 1)]] :
             status \in {"observed", "unknown"}}

\* what fetch_traffic_forecast answers
TrafficForecastAnswers ==
    {[raised |-> "RuntimeError"],
     [raised |-> "", forecast_24h |-> <<>>],
     [raised |-> "",
      forecast_24h |-> <<[status |-> "forecasted", source |-> "here_routing_v8",
                          kind |-> "traffic"]>>]}

\* _format_weather_context and _format_traffic_context
FormatContext(matched) ==
    IF matched = <<>>
    THEN [status |-> "unknown", source |-> "not_provided", reading |-> 0 - 1]
    ELSE LET formatted == [status |-> "observed", source |-> matched[1].source,
                           reading |-> matched[1].reading,
                           distance_km_to_segment |-> 3, time_offset_min |-> 0]
         IN  IF matched[1].forecast_24h # <<>>
             THEN Put(formatted, "forecast_24h", matched[1].forecast_24h[1])
             ELSE formatted

\* _unknown_weather_forecast and _unknown_traffic_forecast
UnknownForecast(source) == [status |-> "unknown", source |-> source]

\* lines 2171-2176 and 2237-2246: a context without forecast gets an
\* unknown one
WithForecast(context) ==
    IF "forecast_24h" \in DOMAIN context THEN context
    ELSE Put(context, "forecast_24h", UnknownForecast("not_provided"))

\* the realtime result of the provider as the context of the segment
ObservedByProvider(realtime) ==
    Put(Put(realtime, "distance_km_to_segment", 0), "time_offset_min", 0)

\* the realtime step that takes whatever the provider answered
WithRealtime_WhateverStatus(context, answer) ==
    IF answer.raised # "" THEN Put(context, "here_error", answer.raised)
    ELSE IF answer.realtime.status = "observed"
    THEN ObservedByProvider(answer.realtime)
    ELSE answer.realtime

\* lines 2184-2195 and 2205-2218: the context after the realtime result
WithRealtime(context, answer) ==
    IF answer.raised # "" THEN Put(context, "here_error", answer.raised)
    ELSE IF answer.realtime.status = "observed"
    THEN ObservedByProvider(answer.realtime)
    ELSE IF context.status = "unknown" THEN answer.realtime
    ELSE context

\* lines 2184-2203: weather_context after fetch_weather
WeatherContextAfter(context, answer) ==
    LET merged == WithRealtime(context, answer)
    IN  IF answer.raised = "" /\ answer.forecast_24h # <<>>
        THEN Put(merged, "forecast_24h", answer.forecast_24h[1])
        ELSE merged

\* lines 2220-2235: traffic_context after fetch_traffic_forecast
TrafficContextAfterForecast(context, answer) ==
    IF answer.raised # ""
    THEN Put(context, "forecast_24h",
             Put(UnknownForecast("here_routing_v8"), "error", answer.raised))
    ELSE IF answer.forecast_24h # <<>>
    THEN Put(context, "forecast_24h", answer.forecast_24h[1])
    ELSE context

MergeInit ==
    /\ merge_pc = "matched"
    /\ merge_input \in [weather : MatchedObservations("weather"),
                        traffic : MatchedObservations("traffic")]
    /\ merge_answers = None
    /\ segment_weather = None
    /\ segment_traffic = None
    /\ SolveIdle
    /\ EnrichIdle
    /\ ProviderIdle
    /\ ResolverIdle
    /\ BuilderIdle
    /\ ScorerIdle
    /\ LayerIdle
    /\ ExtractIdle
    /\ LimitIdle
    /\ HandlerIdle
    /\ GeometryIdle

\* lines 2155-2246: one pass of the loop over the segments
MergeSegment ==
    /\ merge_pc = "matched"
    /\ \E weather \in WeatherAnswers, status \in TrafficStatusAnswers,
          forecast \in TrafficForecastAnswers :
          /\ merge_answers' = [weather |-> weather, traffic_status |-> status,
                               traffic_forecast |-> forecast]
          /\ segment_weather' =
                 WithForecast(WeatherContextAfter(
                     WithForecast(FormatContext(merge_input.weather)), weather))
          /\ segment_traffic' =
                 WithForecast(TrafficContextAfterForecast(
                     WithRealtime(WithForecast(FormatContext(merge_input.traffic)),
                                  status),
                     forecast))
    /\ merge_pc' = "merged"
    /\ UNCHANGED merge_input
    /\ UNCHANGED outsideMerge

SpecMerge == MergeInit /\ [][MergeSegment]_vars

-----------------------------------------------------------------------------
(* Properties of the provider clients *)

Calls == DOMAIN provider_log

\* call j has the method, the canonical arguments and the time bucket of
\* the earlier call i
SameCall(i, j) ==
    /\ i < j
    /\ provider_log[i].method = provider_log[j].method
    /\ provider_log[i].canonical = provider_log[j].canonical
    /\ provider_log[i].bucket = provider_log[j].bucket

\* C12: a call whose canonical arguments and time bucket are those of an
\* earlier successful call of the same client returns the result of that
\* call and leaves stats.http_requests as it was.
C12_RepeatedCallServedFromCache ==
    \A i, j \in Calls :
        (SameCall(i, j) /\ ~provider_log[i].raised)
            => /\ ~provider_log[j].raised
               /\ provider_log[j].result = provider_log[i].result
               /\ provider_log[j].http_after = provider_log[j].http_before

\* C13: a call is answered without a request to the provider only when an
\* earlier successful call had its method, canonical arguments and time
\* bucket; the same arguments in another bucket are fetched afresh.
C13_CacheReuseOnlyWithinBucket ==
    \A j \in Calls :
        (~provider_log[j].raised /\ provider_log[j].requests = 0)
            => \E i \in Calls : SameCall(i, j) /\ ~provider_log[i].raised

\* what an emulator that served no call before returns for the call
FreshEmulation(call) ==
    CASE call.method = "fetch_weather" ->
             EmulatedWeather(call.args[1], call.args[2], call.args[3])
      [] call.method = "fetch_traffic_status" ->
             EmulatedTrafficStatus(call.args[1], call.args[2], call.bucket)
      [] call.method = "fetch_traffic_forecast" ->
             EmulatedTrafficForecast(call.args[1], call.args[2], call.args[3])

\* C15: whatever calls an emulator served before, it returns for a call
\* what an emulator of the same seed and configuration that served none
\* returns for it.
C15_EmulatorResultIndependentOfHistory ==
    client_kind = "emulator"
        => \A j \in Calls : provider_log[j].result = FreshEmulation(provider_log[j])

\* C20: the live client raises only after the failing GET was attempted
\* three times, the first attempt and two retries.
C20_ErrorOnlyAfterTwoRetries ==
    client_kind = "live"
        => \A j \in Calls :
               provider_log[j].raised => provider_log[j].attempts = 1 + 2

-----------------------------------------------------------------------------
(* Properties of the municipality resolver *)

\* the calls that sent a reverse-geocode request
GeocodeRequests == {k \in DOMAIN geocode_log : ~geocode_log[k].cached}

\* C14: with min_interval_ms > 0 two requests of one lookup are sent at
\* least min_interval_ms apart, in whatever phase they are sent and however
\* the earlier one ended; a call answered from the book sends no request
\* and does not sleep.
C14_RequestsSpacedByMinInterval ==
    /\ \A i, j \in GeocodeRequests :
          (i < j /\ lookup.min_interval_ms > 0)
              => geocode_log[j].sent_at - geocode_log[i].sent_at
                     >= lookup.min_interval_ms
    /\ \A k \in DOMAIN geocode_log :
          geocode_log[k].cached
              => /\ geocode_log[k].http_after = geocode_log[k].http_before
                 /\ geocode_log[k].slept = 0
                 /\ geocode_log[k].returned_at = geocode_log[k].called_at

\* a failed request of phase 1, then a request of phase 2 that had to sleep,
\* then a call answered from the book
C14_Witness ==
    /\ lookup # None
    /\ lookup.min_interval_ms > 0
    /\ Len(geocode_log) = 3
    /\ geocode_log[1].status = "error" /\ geocode_log[1].phase = 1
    /\ ~geocode_log[2].cached /\ geocode_log[2].phase = 2
    /\ geocode_log[2].slept > 0
    /\ geocode_log[3].cached

-----------------------------------------------------------------------------
(* Properties of the segments of a route *)

\* C18: on the emitted values, the cumulative distance of a segment is the
\* cumulative distance of the segment before it plus its own distance (its
\* own distance for the first segment), and eta_min_from_departure never
\* decreases along the route.
C18_CumulativeIsRunningSum ==
    builder_pc = "returned"
        => \A i \in DOMAIN builder_segments :
              /\ builder_segments[i].cumulative_distance_km
                     = (IF i = 1 THEN 0
                        ELSE builder_segments[i - 1].cumulative_distance_km)
                       + builder_segments[i].distance_km
              /\ i > 1 => builder_segments[i].eta_min_from_departure
                              >= builder_segments[i - 1].eta_min_from_departure

-----------------------------------------------------------------------------
(* Properties of the semantic locations of a route *)

\* the candidates of the call whose distance to the route is at most the
\* corridor radius
InCorridor ==
    {k \in DOMAIN scorer_input.candidate_locations :
        /\ Len(scorer_input.route.stops) >= 2
        /\ DistanceToRouteKm(scorer_input.candidate_locations[k],
                             scorer_input.route.stops).distance
               <= scorer_input.radius_km}

\* what the scorer emits for candidate k
Emitted(k) ==
    ScoredLocation(scorer_input.candidate_locations[k], scorer_input.route.stops,
                   scorer_input.radius_km, scorer_input.semantic_categories)

\* a comes before b: higher relevance_score, then smaller
\* distance_to_route_km, then smaller id (ids compared as they print)
RanksBefore(a, b) ==
    \/ a.relevance_score > b.relevance_score
    \/ a.relevance_score = b.relevance_score
          /\ a.distance_to_route_km < b.distance_to_route_km
    \/ a.relevance_score = b.relevance_score
          /\ a.distance_to_route_km = b.distance_to_route_km
          /\ StrLess(StrOfId(a.id), StrOfId(b.id))

\* C17: semantic_locations has at most top_k entries, is sorted by
\* descending relevance_score, then ascending distance_to_route_km, then
\* ascending id, holds only candidates within the corridor radius of the
\* route, and holds the top_k best of them under that order.
C17_TopKLocationsInOrder ==
    scorer_pc = "returned"
        => /\ Len(scorer_locations) <= scorer_input.top_k
           /\ \A i, j \in DOMAIN scorer_locations :
                 i < j => RanksBefore(scorer_locations[i], scorer_locations[j])
           /\ \A i \in DOMAIN scorer_locations :
                 \E k \in InCorridor : scorer_locations[i] = Emitted(k)
           /\ \A k \in InCorridor :
                 \/ \E i \in DOMAIN scorer_locations : scorer_locations[i] = Emitted(k)
                 \/ /\ Len(scorer_locations) = scorer_input.top_k
                    /\ \A i \in DOMAIN scorer_locations :
                          RanksBefore(scorer_locations[i], Emitted(k))

\* two locations tied on score and distance come out in the order their ids
\* print in, and a third one within the corridor is cut by top_k
C17_Witness ==
    /\ scorer_pc = "returned"
    /\ Len(scorer_locations) = 2
    /\ scorer_locations[1].relevance_score = scorer_locations[2].relevance_score
    /\ scorer_locations[1].distance_to_route_km
           = scorer_locations[2].distance_to_route_km
    /\ scorer_locations[1].id = 10 /\ scorer_locations[2].id = 2
    /\ scorer_input.top_k = 2
    /\ Cardinality(InCorridor) = 3

-----------------------------------------------------------------------------
(* Properties of the loop of build_semantic_layer *)

NoAdjacentEqual(items) ==
    \A k \in 1..(Len(items) - 1) : items[k] # items[k + 1]

NoAdjacentEqualIgnoringCase(items) ==
    \A k \in 1..(Len(items) - 1) : Casefold(items[k]) # Casefold(items[k + 1])

\* the vectors of the segments of a route, one after the other
RECURSIVE SegmentVectorsJoined(_, _)
SegmentVectorsJoined(contexts, field) ==
    IF contexts = <<>> THEN <<>>
    ELSE Head(contexts)[field] \o SegmentVectorsJoined(Tail(contexts), field)

\* items without every item equal to the item kept before it
RECURSIVE WithoutAdjacentEqual(_, _)
WithoutAdjacentEqual(kept, items) ==
    IF items = <<>> THEN kept
    ELSE WithoutAdjacentEqual(
             IF kept # <<>> /\ kept[Len(kept)] = Head(items)
             THEN kept ELSE Append(kept, Head(items)),
             Tail(items))

\* items without every item that equals, ignoring case, the item kept
\* before it
RECURSIVE WithoutAdjacentEqualIgnoringCase(_, _)
WithoutAdjacentEqualIgnoringCase(kept, items) ==
    IF items = <<>> THEN kept
    ELSE WithoutAdjacentEqualIgnoringCase(
             IF kept # <<>> /\ Casefold(kept[Len(kept)]) = Casefold(Head(items))
             THEN kept ELSE Append(kept, Head(items)),
             Tail(items))

SegmentFields == {"municipality_names", "province_names", "province_capital_names"}

\* the vector of a route and the vectors of its segments it is made of
RouteFields ==
    {<<"municipality_vector", "municipality_names">>,
     <<"province_vector", "province_names">>,
     <<"province_capital_vector", "province_capital_names">>}

\* C16, as stated: no admin vector of a built layer has two adjacent equal
\* strings, and the vector of a route is the vectors of its segments in
\* order, one after the other, without the items equal to their predecessor.
C16_RouteVectorDropsEqualNeighbours ==
    \A r \in 1..Len(routes_output) :
        /\ \A context \in Range(routes_output[r].segment_context) :
              \A field \in SegmentFields : NoAdjacentEqual(context[field])
        /\ \A pair \in RouteFields :
              /\ NoAdjacentEqual(routes_output[r][pair[1]])
              /\ routes_output[r][pair[1]] =
                     WithoutAdjacentEqual(
                         <<>>,
                         SegmentVectorsJoined(routes_output[r].segment_context,
                                              pair[2]))

\* C16, amended: no admin vector of a built layer has two adjacent strings
\* that are equal when case is ignored (so none has two adjacent equal
\* strings), and the vector of a route is the vectors of its segments in
\* order, one after the other, without the items that equal, ignoring case,
\* the item kept before them.
C16_RouteVectorDropsNeighboursIgnoringCase ==
    \A r \in 1..Len(routes_output) :
        /\ \A context \in Range(routes_output[r].segment_context) :
              \A field \in SegmentFields :
                  /\ NoAdjacentEqual(context[field])
                  /\ NoAdjacentEqualIgnoringCase(context[field])
        /\ \A pair \in RouteFields :
              /\ NoAdjacentEqual(routes_output[r][pair[1]])
              /\ NoAdjacentEqualIgnoringCase(routes_output[r][pair[1]])
              /\ routes_output[r][pair[1]] =
                     WithoutAdjacentEqualIgnoringCase(
                         <<>>,
                         SegmentVectorsJoined(routes_output[r].segment_context,
                                              pair[2]))

\* a route of two segments is in the output, the second segment begins in
\* the municipality the first one ends in, and the vector of the route names
\* it once
C16_Witness ==
    \E r \in 1..Len(routes_output) :
        LET contexts == routes_output[r].segment_context
        IN  /\ Len(contexts) = 2
            /\ contexts[1].municipality_names # <<>>
            /\ contexts[2].municipality_names # <<>>
            /\ Casefold(contexts[1].municipality_names[
                            Len(contexts[1].municipality_names)])
                   = Casefold(contexts[2].municipality_names[1])
            /\ Len(routes_output[r].municipality_vector)
                   < Len(contexts[1].municipality_names)
                     + Len(contexts[2].municipality_names)

\* the provider calls of the log that raised
FailedCalls ==
    {k \in 1..Len(layer_calls) :
        \E call \in 1..3 :
            layer_calls[k].outcomes[call] \in {"RuntimeError", "AttributeError"}}

\* C19: whatever a provider call of a segment raises, build_semantic_layer
\* does not raise; it returns with an errors entry, with the segment of the
\* failed call in segment_context, and with every later segment and route.
C19_ProviderErrorTaintsOnlyItsSegment ==
    /\ layer_pc # "raised"
    /\ layer_pc = "returned" =>
          /\ Len(layer_result.routes) = Len(layer_input.routes)
          /\ \A r \in 1..Len(layer_result.routes) :
                Len(layer_result.routes[r].segment_context)
                    = Len(layer_input.routes[r].stops) - 1
          /\ FailedCalls # {} => layer_result.errors # <<>>

-----------------------------------------------------------------------------
(* Properties of the Clarke-Wright loop *)

\* the ids of the customers Clarke-Wright routes
LoopCustomers == {reachable_customers[k].id : k \in DOMAIN reachable_customers}

\* the customers of a route in visiting order
VisitedOn(r) == [k \in 1..(Len(r.edges) - 1) |-> r.edges[k].end]

\* the edges of a route lead from the depot through customers, none of
\* them twice, back to the depot
IsDepotChain(r) ==
    /\ Len(r.edges) >= 2
    /\ r.edges[1].origin = DepotId
    /\ r.edges[Len(r.edges)].end = DepotId
    /\ \A k \in 1..(Len(r.edges) - 1) :
          /\ r.edges[k].end = r.edges[k + 1].origin
          /\ r.edges[k].end # DepotId
    /\ \A k, l \in 1..(Len(r.edges) - 1) :
          k # l => r.edges[k].end # r.edges[l].end

\* the routes of the list and their customers
LoopShape ==
    pc \in {"cw_loop", "select"} /\ reachable_customers # <<>> =>
        /\ \A k, l \in DOMAIN routes : k # l => routes[k] # routes[l]
        /\ \A k \in DOMAIN routes : IsDepotChain(route_of[routes[k]])
        /\ \A id \in LoopCustomers :
              /\ in_route[id] \in Range(routes)
              /\ \A k \in DOMAIN routes :
                    id \in Range(VisitedOn(route_of[routes[k]]))
                        <=> routes[k] = in_route[id]
              /\ is_interior[id] =>
                    LET visited == VisitedOn(route_of[in_route[id]])
                    IN  /\ visited[1] # id
                        /\ visited[Len(visited)] # id

\* C30: after every iteration of the savings loop every reachable customer
\* lies on exactly one route, the one its in_route names; the edges of every
\* route are one chain from the depot through its customers, none repeated,
\* back to the depot; a node flagged is_interior is not next to the depot on
\* its route; and no iteration adds a route to the list.
C30_LoopKeepsRoutesWellFormed ==
    /\ []LoopShape
    /\ [][pc = "cw_loop" => Len(routes') <= Len(routes)]_vars

\* two merges have made a route of three customers whose middle customer is
\* flagged is_interior
C30_Witness ==
    /\ pc = "cw_loop"
    /\ Len(merges) = 2
    /\ \E id \in LoopCustomers :
          /\ is_interior[id]
          /\ Len(route_of[in_route[id]].edges) = 4

-----------------------------------------------------------------------------
(* Properties of the address book of the resolver *)

\* the calls of the resolver that sent a request for the key
RequestsFor(key) ==
    {k \in DOMAIN geocode_log : geocode_log[k].key = key /\ ~geocode_log[k].cached}

\* C28: in a run that starts with an empty address book at most one
\* reverse-geocode request is sent per coordinate key over phase 1 and
\* phase 2, also when the request failed; http_requests is the size of the
\* address book and http_requests + cache_hits the number of resolves.
C28_OneRequestPerCoordinateKey ==
    /\ \A key \in CoordinateKeys : Cardinality(RequestsFor(key)) <= 1
    /\ \A k \in DOMAIN geocode_log :
          geocode_log[k].http_after - geocode_log[k].http_before
              = (IF geocode_log[k].cached THEN 0 ELSE 1)
    /\ lookup.http_requests = Cardinality(DOMAIN lookup.book)
    /\ lookup.http_requests + lookup.cache_hits = Len(geocode_log)

\* the request for a key failed in phase 1 and a sample of phase 2 with the
\* same key was answered from the address book
C28_Witness ==
    \E k, l \in DOMAIN geocode_log :
        /\ k < l
        /\ geocode_log[k].key = geocode_log[l].key
        /\ geocode_log[k].phase = 1
        /\ ~geocode_log[k].cached
        /\ geocode_log[k].status = "error"
        /\ geocode_log[l].phase = 2
        /\ geocode_log[l].cached
        /\ geocode_log[l].status = "error"

-----------------------------------------------------------------------------
(* Properties of the row of a reverse-geocode payload *)

\* the priority as the specification lists it
ListedPriority ==
    <<"municipality", "city", "town", "village", "city_district", "district",
      "borough", "suburb", "quarter", "hamlet", "locality">>

\* whether the field has a value that is not empty once stripped
HasValue(address, field) ==
    field \in DOMAIN address /\ Strip(address[field]) # ""

\* the row names the value of the first field of the priority that has one,
\* and is unknown without a name when no field of the priority has one
NamesFirstOf(priority) ==
    extract_pc = "returned" =>
        LET address == extract_payload.address
        IN  /\ \A k \in DOMAIN priority :
                  HasValue(address, priority[k])
                  /\ (\A l \in 1..(k - 1) : ~HasValue(address, priority[l]))
                  => /\ extract_row.status = "resolved"
                     /\ extract_row.municipality_name = Strip(address[priority[k]])
                     /\ extract_row.municipality_source_field = priority[k]
            /\ (\A k \in DOMAIN priority : ~HasValue(address, priority[k]))
                  => /\ extract_row.status = "unknown"
                     /\ extract_row.municipality_name = ""

\* C26, as stated: the name is the value of the first non-empty field in the
\* order municipality, city, town, village, city_district, district, borough,
\* suburb, quarter, hamlet, locality; without any of them the row is unknown
\* and has no name.
C26_NameByListedPriority == NamesFirstOf(ListedPriority)

\* C26, amended: the name is the stripped value of the first field, in the
\* order municipality, city, town, village, city_district, district, borough,
\* suburb, quarter, hamlet, neighbourhood, locality, whose stripped value is
\* not empty; without any such field the row is unknown and has no name.
C26_NameByCodePriority == NamesFirstOf(MUNICIPALITY_ADDRESS_PRIORITY)

\* an address map with a neighbourhood and a locality: the row is named
\* after the neighbourhood
C26_Witness ==
    /\ extract_pc = "returned"
    /\ HasValue(extract_payload.address, "neighbourhood")
    /\ HasValue(extract_payload.address, "locality")
    /\ extract_row.municipality_source_field = "neighbourhood"

-----------------------------------------------------------------------------
(* Properties of the cap on the samples *)

\* C29: for max_samples >= 2, _limit_samples returns at most max_samples
\* samples, all of them samples of the input, none twice, in increasing
\* order of sample_index, the first and the last sample of the input among
\* them; an input of at most max_samples samples is returned as it is.
C29_LimitKeepsEndpointsInOrder ==
    limit_pc = "returned" /\ limit_input.max_samples >= 2 =>
        LET samples == limit_input.samples
        IN  /\ Len(limit_picked) <= limit_input.max_samples
            /\ \A k \in DOMAIN limit_picked : limit_picked[k] \in Range(samples)
            /\ \A k, l \in DOMAIN limit_picked :
                  k < l => limit_picked[k].sample_index
                               < limit_picked[l].sample_index
            /\ limit_picked[1] = samples[1]
            /\ limit_picked[Len(limit_picked)] = samples[Len(samples)]
            /\ Len(samples) <= limit_input.max_samples => limit_picked = samples

\* more samples than max_samples, and a slot whose index lies half way
\* between two samples: 7 samples, 5 slots, the index of slot 1 is 1.5
C29_Witness ==
    /\ limit_pc = "returned"
    /\ Len(limit_input.samples) = 7
    /\ limit_input.max_samples = 5
    /\ Len(limit_picked) = 5
    /\ limit_picked[2].sample_index = 2

-----------------------------------------------------------------------------
(* Properties of the pipeline of /solve_vrp *)

\* where the log calls the solver, and where it calls the provider
SolverCallsAt == {i \in DOMAIN handler_log : handler_log[i].stage = "solver"}
ProviderCallsAt == {i \in DOMAIN handler_log : handler_log[i].stage # "solver"}

\* the body is a JSON object
IsObject(body) == "invalid_json" \notin DOMAIN body

\* the body lacks a field the specification requires
LacksRequiredField(body) ==
    \/ body.depot = <<>>
    \/ Len(body.customers) = 0
    \/ body.vehicles = <<>>
    \/ body.capacity = <<>>

\* C23: a body that is no valid JSON or lacks depot, a non-empty customers
\* list, vehicles or capacity is answered with 400 and an error text, and
\* the solver is not called for it.
C23_IncompleteBodyIsRefused ==
    (~IsObject(handler_body) \/ LacksRequiredField(handler_body))
        => /\ SolverCallsAt = {}
           /\ handler_pc \in {"received", "responded"}
           /\ handler_pc = "responded"
                  => /\ handler_response.status_code = 400
                     /\ DOMAIN handler_response.body = {"error"}

\* the request asks for live data with the platform on and no key is set
LiveWithoutKey ==
    /\ IsObject(handler_body)
    /\ RefusalOf(handler_body) = None
    /\ ResolveHereDataSource(handler_body.options) = "here"
    /\ AsBool(handler_body.options, "use_here_platform")
    /\ ~here_api_key

\* the response carries the result of the solver
AnsweredWithResult == handler_pc = "responded" /\ handler_response.status_code = 200

\* the semantic layer of the response was built for every segment of the
\* route and without a provider client
LayerBuiltWithoutClient ==
    AsBool(handler_body.options, "include_semantic_layer")
        => /\ "semantic_layer" \in DOMAIN handler_response.body
           /\ handler_response.body.semantic_layer.status = "ok"
           /\ handler_response.body.semantic_layer.segments
                  = Len(handler_body.customers) + 1
           /\ ~handler_response.body.semantic_layer.config.use_here_platform

\* C24 as stated: with the live data source, the platform on and no key,
\* here_prefetch of the response is {status: "disabled", error: "API key
\* not set"}, no provider call is made and the solver and the enrichment run.
C24_MissingKeyReportsDisabledStatus ==
    (LiveWithoutKey /\ AnsweredWithResult)
        => /\ "here_prefetch" \in DOMAIN handler_response.body
           /\ handler_response.body.here_prefetch
                  = [status |-> "disabled", error |-> "API key not set"]
           /\ ProviderCallsAt = {}
           /\ SolverCallsAt # {}
           /\ LayerBuiltWithoutClient

\* C24 as the code has it: in before_vrp mode here_prefetch is {enabled:
\* false, data_source: "here", error: "HERE_API_KEY environment variable is
\* not set."}, in postprocessing mode the response has no here_prefetch and
\* the layer reports here_api_key_source "missing_env:HERE_API_KEY"; in
\* both modes no provider call is made, the solver is called and the layer
\* is built for every segment.
C24_MissingKeyReportsPrefetchOff ==
    (LiveWithoutKey /\ AnsweredWithResult)
        => /\ IF ResolveHerePipelineMode(handler_body.options) = "before_vrp"
              THEN /\ "here_prefetch" \in DOMAIN handler_response.body
                   /\ handler_response.body.here_prefetch
                          = [enabled |-> FALSE, data_source |-> "here",
                             error |-> "HERE_API_KEY environment variable is not set."]
              ELSE "here_prefetch" \notin DOMAIN handler_response.body
           /\ ProviderCallsAt = {}
           /\ Cardinality(SolverCallsAt) = 1
           /\ LayerBuiltWithoutClient
           /\ AsBool(handler_body.options, "include_semantic_layer")
                  => handler_response.body.semantic_layer.config.here_api_key_source
                         = "missing_env:HERE_API_KEY"

C24_Witness ==
    /\ LiveWithoutKey
    /\ AnsweredWithResult
    /\ ResolveHerePipelineMode(handler_body.options) = "before_vrp"
    /\ "semantic_layer" \in DOMAIN handler_response.body
    /\ Len(handler_body.customers) = 2

\* the prefetch ran with a client
Prefetched ==
    /\ handler_payload # None
    /\ handler_payload.here_prefetch # <<>>
    /\ handler_payload.here_prefetch[1].enabled

\* the lookups of a kind that failed during the prefetch, as the points
\* they failed at
FailedLookups(kind) ==
    {i \in ProviderCallsAt :
        /\ handler_log[i].stage = "prefetch"
        /\ handler_log[i].outcome = "raises"
        /\ (kind = "weather") = (handler_log[i].call = "fetch_weather")}

\* the errors entries of a kind
ErrorEntries(kind) ==
    {i \in DOMAIN handler_payload.here_prefetch[1].errors :
        handler_payload.here_prefetch[1].errors[i][1]
            = (IF kind = "weather" THEN "weather prefetch failed at"
               ELSE "traffic prefetch failed at")}

\* every input point had its weather lookup and its traffic lookup
EveryLookupAttempted ==
    \A k \in 0..Len(handler_body.customers) :
        \A call \in {"fetch_weather", "fetch_traffic_status"} :
            \E i \in ProviderCallsAt :
                /\ handler_log[i].stage = "prefetch"
                /\ handler_log[i].call = call
                /\ handler_log[i].at = k

\* the failed lookups of the prefetch in the order of the log, as entries
RECURSIVE FailureEntriesOf(_)
FailureEntriesOf(log) ==
    IF log = <<>> THEN <<>>
    ELSE (IF Head(log).stage = "prefetch" /\ Head(log).outcome = "raises"
          THEN <<<<(IF Head(log).call = "fetch_weather"
                    THEN "weather prefetch failed at"
                    ELSE "traffic prefetch failed at"),
                   InputPoint(Head(log).at).lat, InputPoint(Head(log).at).lng>>>>
          ELSE <<>>)
         \o FailureEntriesOf(Tail(log))

\* C22 as stated: every failed lookup of the prefetch has its own entry in
\* here_prefetch.errors, every point has both lookups attempted and the
\* solver is called.
C22_EveryFailureHasItsEntry ==
    Prefetched
        => /\ handler_payload.here_prefetch[1].errors
                  = FailureEntriesOf(handler_log)
           /\ EveryLookupAttempted
           /\ handler_pc \in {"solved", "responded"} => SolverCallsAt # {}

\* C22 with the cap of the code: here_prefetch.errors holds the entries of
\* the first 20 failed lookups in the order of the points (weather before
\* traffic), each naming the kind and the point; every point has both
\* lookups attempted whatever failed before, and the solver is called.
C22_FirstFailuresHaveTheirEntries ==
    Prefetched
        => /\ handler_payload.here_prefetch[1].errors
                  = Take(FailureEntriesOf(handler_log), PrefetchErrorsLimit)
           /\ EveryLookupAttempted
           /\ handler_pc \in {"solved", "responded"}
                  => Cardinality(SolverCallsAt) = 1

C22_Witness ==
    /\ Prefetched
    /\ handler_pc = "solved"
    /\ Len(handler_body.customers) = 2
    /\ Cardinality(FailedLookups("traffic")) = 1
    /\ FailedLookups("weather") = {}
    /\ Len(handler_payload.here_prefetch[1].errors) = 1
    /\ Len(handler_payload.weather_observations) = 3
    /\ Len(handler_payload.traffic_observations) = 2

\* the request runs in before_vrp mode with the platform on
PrefetchMode ==
    /\ IsObject(handler_body)
    /\ RefusalOf(handler_body) = None
    /\ ResolveHerePipelineMode(handler_body.options) = "before_vrp"
    /\ AsBool(handler_body.options, "use_here_platform")

\* C21: in before_vrp mode with the platform on, every provider call comes
\* before the call of the solver and belongs to the prefetch; the layer is
\* built without a provider client; the observations the layer works with
\* are the ones of the caller, unchanged and in order, followed by the
\* prefetched ones.
C21_ProviderCallsOnlyBeforeSolver ==
    PrefetchMode
        => /\ \A i \in ProviderCallsAt :
                 /\ handler_log[i].stage = "prefetch"
                 /\ \A j \in SolverCallsAt : i < j
           /\ AnsweredWithResult => LayerBuiltWithoutClient
           /\ handler_payload # None
                  => LET given == InitialSemanticPayload(handler_body).weather_observations
                         held == handler_payload.weather_observations
                     IN  /\ Len(held) >= Len(given)
                         /\ SubSeq(held, 1, Len(given)) = given
                         /\ \A i \in Len(given) + 1..Len(held) :
                                held[i].source = "here_weather_v3"
           /\ (AnsweredWithResult /\ "semantic_layer" \in DOMAIN handler_response.body)
                  => handler_response.body.semantic_layer.weather_observations
                         = handler_payload.weather_observations

C21_Witness ==
    /\ PrefetchMode
    /\ AnsweredWithResult
    /\ "semantic_layer" \in DOMAIN handler_response.body
    /\ here_api_key
    /\ ResolveHereDataSource(handler_body.options) = "here"
    /\ Len(InitialSemanticPayload(handler_body).weather_observations) = 1
    /\ Len(handler_payload.weather_observations) = 3
    /\ Cardinality(ProviderCallsAt) = 5

-----------------------------------------------------------------------------
(* Properties of the road geometry of the segments *)

\* the segments traced along the straight line so far
TracedStraight ==
    {i \in DOMAIN segment_shapes : segment_shapes[i].sampled_along = "straight"}

\* the entries of municipality_errors that report a failed geometry fetch
GeometryFailureEntries ==
    {i \in DOMAIN municipality_errors :
        municipality_errors[i][1] = "municipality geometry fetch failed"}

-----------------------------------------------------------------------------
(* Properties of the contexts of a segment *)

\* the realtime part of a context
RealtimePart(context) ==
    [field \in {"status", "source", "reading", "distance_km_to_segment",
                "time_offset_min"} \cap DOMAIN context |-> context[field]]

\* what the provider answered as realtime result: nothing when it raised
ProviderObserved(answer) ==
    answer.raised = "" /\ answer.realtime.status = "observed"

\* the context holds for a kind: the realtime part is the provider's exactly
\* when the provider observed, and the caller's when the caller sent an
\* observation and the provider did not observe
RealtimeSettled(context, matched, answer) ==
    /\ ProviderObserved(answer)
           => RealtimePart(context) = ObservedByProvider(answer.realtime)
    /\ (~ProviderObserved(answer) /\ matched # <<>>)
           => RealtimePart(context) = RealtimePart(FormatContext(matched))
    /\ (matched # <<>> /\ context.source # "caller_feed")
           => ProviderObserved(answer)

\* C27: the realtime result of the provider replaces the observation of
\* the caller only when its status is "observed": the observation is kept
\* when the result is unknown or the call raised; forecast_24h is the
\* forecast of the provider whenever the call returned one, whether or not
\* the observation carried a forecast.
C27_ProviderSupersedesWhenObserved ==
    merge_pc = "merged"
        => /\ RealtimeSettled(segment_weather, merge_input.weather,
                              merge_answers.weather)
           /\ RealtimeSettled(segment_traffic, merge_input.traffic,
                              merge_answers.traffic_status)
           /\ (merge_answers.weather.raised = ""
               /\ merge_answers.weather.forecast_24h # <<>>)
                  => segment_weather.forecast_24h
                         = merge_answers.weather.forecast_24h[1]
           /\ (merge_answers.traffic_forecast.raised = ""
               /\ merge_answers.traffic_forecast.forecast_24h # <<>>)
                  => segment_traffic.forecast_24h
                         = merge_answers.traffic_forecast.forecast_24h[1]

C27_Witness ==
    /\ merge_pc = "merged"
    /\ merge_input.weather # <<>>
    /\ merge_input.weather[1].forecast_24h # <<>>
    /\ merge_input.traffic # <<>>
    /\ merge_input.traffic[1].forecast_24h # <<>>
    /\ merge_answers.weather.raised = ""
    /\ merge_answers.weather.realtime.status = "unknown"
    /\ segment_weather.source = "caller_feed"
    /\ segment_weather.forecast_24h.source = "here_weather_v3"
    /\ ProviderObserved(merge_answers.traffic_status)
    /\ merge_answers.traffic_forecast.raised = ""
    /\ merge_answers.traffic_forecast.forecast_24h # <<>>
    /\ segment_traffic.source = "here_traffic_v7"
    /\ segment_traffic.forecast_24h.source = "here_routing_v8"

====
